---- MODULE Spec2Model ----
(***************************************************************************)
(* A model of the TidesDB storage engine core (src/src/tidesdb.c): the     *)
(* write-ahead log, the memtable, the flush pipeline with its background   *)
(* worker, SSTables, compaction, the read path and crash recovery.         *)
(*                                                                         *)
(* Sizes are scaled: every memtable entry has size 1, so that a column     *)
(* family's flush_threshold is a number of entries.  Byte strings are      *)
(* small integers; keys are ordered as integers (byte-lexicographic order  *)
(* of the skiplist).  The wall clock time(NULL) is the variable now.       *)
(***************************************************************************)
EXTENDS Integers, Sequences, FiniteSets, TLC

(* ------------------------------ bounds -------------------------------- *)

\* number of distinct keys a client uses
NumKeys == 2

\* number of distinct (non-sentinel) values a client uses
NumValues == 2

\* the clock runs from 0 to MaxTime
MaxTime == 2

\* the one absolute expiration time a client uses besides -1
ExpiryTime == 1

\* number of put/delete calls the clients issue in one run of Spec
MaxOps == 3

\* number of put/delete calls the clients issue in one run of SpecLsm
MaxLsmOps == 4

\* number of times the process is killed in one run
MaxCrashes == 1

\* config.flush_threshold of every column family, in entries
FlushThreshold == 2

\* largest max_threads handed to tidesdb_compact_sstables
MaxThreads == 2

\* the number of puts a client issues before it begins its transaction
MaxSetupOps == 2

\* the number of operations buffered in a transaction
MaxTxnOps == 2

\* the expiry time of the records in the SSTable files handed to a merge
MergeTtl == 1

\* puts of the client that then opens a cursor
MaxCursorOps == 5

\* calls made on one cursor
MaxCursorSteps == 6

\* puts issued by the two writer threads together
MaxWriterOps == 3

\* the longest SSTable list handed to a compaction on its own
MaxSstables == 5

\* the largest max_threads handed to that compaction
MaxPartitionThreads == 6

\* puts and deletes before the process is killed and opened again
MaxReplayOps == 3

\* puts issued while column families are created and dropped
MaxPointerOps == 3

\* puts and gets of the thread that runs beside a committing transaction
MaxOtherOps == 2

\* the catalog holds at most this many entries
MaxColumnFamilies == 4

\* puts before the database is closed
MaxCloseOps == 4

\* the database is closed at most this many times in a catalog run
MaxCatalogCloses == 3

(* ---------------------------- domains --------------------------------- *)

ColumnFamilies == {"cf1", "cf2"}

Keys == 1..NumKeys

\* the threads that call tidesdb_put at the same time
Writers == {"w1", "w2"}

Values == 1..NumValues

TTLs == {-1, ExpiryTime}

\* the 4-byte sentinel 0xFFFFFFFF, kept apart from every client value
TOMBSTONE == 0

\* error codes of tidesdb_get
ERR_NONE == 0

ERR_KEY_NOT_FOUND == 1031

\* "Key's value cannot be a tombstone"
ERR_VALUE_TOMBSTONE == 1066

\* "Column family not found"
ERR_CF_NOT_FOUND == 1028

\* "Failed to append to wal", of tidesdb_delete and of tidesdb_put
ERR_DELETE_WAL == 1029

ERR_PUT_WAL == 1049

ERR_KEY_EXPIRED == 1039

ERR_BLOOM_READ == 1055

ERR_CURSOR_INIT == 1059

ERR_CURSOR_GET == 1060

ERR_AT_END == 1062

ERR_AT_START == 1063

ERR_TOMBSTONED == 1064

ERR_EXPIRED == 1065

OP_PUT == "OP_PUT"

OP_DELETE == "OP_DELETE"

Min(a, b) == IF a < b THEN a ELSE b

(* ------------------------- external contracts ------------------------- *)

\* bool _is_tombstone(value, value_size)
IsTombstone(value) == value = TOMBSTONE

\* the expiry test the engine applies to a record: ttl != -1 && ttl < time(NULL)
Expired(ttl, t) == ttl # -1 /\ ttl < t

\* new_skiplist / skiplist_clear: the empty ordered map
EmptySkiplist == [k \in {} |-> [value |-> TOMBSTONE, ttl |-> -1]]

\* skiplist_put: insert, or overwrite the entry of an existing key
SkiplistPut(list, key, value, ttl) ==
    [k \in (DOMAIN list) \cup {key} |->
        IF k = key THEN [value |-> value, ttl |-> ttl] ELSE list[k]]

\* skiplist total_size, every entry counting 1
TotalSize(list) == Cardinality(DOMAIN list)

\* skiplist_get: the entry of key; an expired entry is reported with the
\* tombstone value (the memtable never reports an expired key as live).
\* The result is [found, value].
SkiplistGet(list, key, t) ==
    IF key \notin DOMAIN list
    THEN [found |-> FALSE, value |-> TOMBSTONE]
    ELSE IF Expired(list[key].ttl, t)
         THEN [found |-> TRUE, value |-> TOMBSTONE]
         ELSE [found |-> TRUE, value |-> list[key].value]

\* the keys of a skiplist in cursor (ascending) order
RECURSIVE SortedSeq(_)
SortedSeq(S) ==
    IF S = {} THEN << >>
    ELSE LET m == CHOOSE x \in S : \A y \in S : x <= y
         IN  << m >> \o SortedSeq(S \ {m})

\* pager_truncate(pager, checkpoint): keep the first checkpoint pages
PagerTruncate(pages, checkpoint) == SubSeq(pages, 1, Min(checkpoint, Len(pages)))

(* ------------------------------ state ---------------------------------- *)

VARIABLES
    now,          \* time(NULL)
    opened,       \* the process runs and tidesdb_open has returned
    memtable,     \* column family -> its live memtable (cf->memtable)
    sstables,     \* column family -> cf->sstables[0 .. num_sstables-1]
    files,        \* column family -> the .sst files of its directory
    wal,          \* the pages of <db>/wal, oldest first
    flush_queue,  \* tdb->flush_queue: entries {cf, memtable, wal_checkpoint}
    worker,       \* the flush thread: where it is and the entry it holds
    id_gen,       \* the id generator naming new .sst files
    ops,          \* number of put/delete calls issued so far
    crashes,      \* number of times the process was killed so far
    acked,        \* column family -> key -> the last acknowledged mutation
    triggered,    \* column family -> a put has crossed its flush threshold
    compacted,    \* what the last tidesdb_compact_sstables call was given
    txn,          \* the client's transaction: its state and buffered operations
    column_families, \* tdb->column_families[0 .. num_column_families-1], by name
    directories,  \* the column family directories under db_path
    created,      \* what the last tidesdb_create_column_family call did
    shutdown,     \* tidesdb_close: its position and tdb->stop_flush_thread
    threads,      \* who holds flush_lock and each sstables_lock, and where the
                  \* reading, compacting and flushing threads stand
    cursor        \* the client's tidesdb_cursor and what its last call did

\* the variables that the put, get, flush and compaction paths leave alone
side_vars == << txn, column_families, directories, created, shutdown, threads, cursor >>

vars == << now, opened, memtable, sstables, files, wal, flush_queue, worker,
           id_gen, ops, crashes, acked, triggered, compacted, side_vars >>

\* a slot of cf->sstables set to NULL by a compaction thread
NullSst == [id |-> 0, header |-> FALSE, bloom |-> {}, pages |-> << >>]

NoQueueEntry == [cf |-> "", memtable |-> EmptySkiplist, wal_checkpoint |-> 0,
                 slot |-> 0, realloc |-> FALSE]

NoAck == [op |-> "none", value |-> TOMBSTONE, ttl |-> -1]

NoCompaction ==
    [cf |-> "", max_threads |-> 0, before |-> << >>, sorted |-> << >>,
     slots |-> << >>, merged |-> {}, after |-> << >>, deleted |-> {}]

\* tidesdb_cursor_init has not been called
NoCursor ==
    [status          |-> "none",
     cf              |-> "",
     memtable_cursor |-> 0,
     sstable_index   |-> 0,
     page_number     |-> 0,
     out_of_range    |-> FALSE,
     exhausted       |-> FALSE,
     rdlocks         |-> 0,
     steps           |-> 0,
     code            |-> ERR_NONE,
     before          |-> << >>,
     round_trip      |-> << >>]

\* a writer thread that is not inside tidesdb_put
NoPut == [pc |-> "idle", key |-> 0, value |-> TOMBSTONE, snapshot |-> << >>,
          code |-> ERR_NONE]

\* no thread is inside tidesdb_get, tidesdb_put, tidesdb_txn_commit,
\* tidesdb_compact_sstables or the flush loop body, and no lock is held
NoThreads ==
    [flush_lock    |-> "",
     sstables_lock |-> [cf \in ColumnFamilies |-> ""],
     memtable_lock |-> [cf \in ColumnFamilies |-> ""],
     wal_lock      |-> "",
     get           |-> [pc |-> "idle", cf |-> ""],
     compact       |-> [pc |-> "idle", cf |-> ""],
     flush         |-> [pc |-> "wait", cf |-> ""],
     put           |-> [w \in Writers |-> NoPut],
     commit        |-> [pc |-> "idle", applied |-> 0, others |-> 0]]

\* tidesdb_close has not been called
NoShutdown == [pc |-> "none", stop_flush_thread |-> FALSE]

\* no column family has been created by this process yet
NoCreate == [name |-> "", existed |-> FALSE, code |-> ERR_NONE]

\* no transaction has been begun
NoTxn == [status |-> "none", column_family |-> "", ops |-> << >>, before |-> << >>]

(* ------------------------------ read path ------------------------------ *)

\* the scan of one SSTable's kv pages from page `i` on, for `key`:
\* "miss" when no page holds the key, else the verdict of the first page
\* that does (tidesdb_get, the while (has_next) loop)
RECURSIVE ScanPages(_, _, _, _)
ScanPages(pages, i, key, t) ==
    IF i > Len(pages) THEN [hit |-> FALSE, code |-> ERR_NONE, value |-> TOMBSTONE]
    ELSE IF pages[i].key = key
         THEN IF IsTombstone(pages[i].value)
              THEN [hit |-> TRUE, code |-> ERR_KEY_NOT_FOUND, value |-> TOMBSTONE]
              ELSE IF Expired(pages[i].ttl, t)
                   THEN [hit |-> TRUE, code |-> ERR_KEY_EXPIRED, value |-> TOMBSTONE]
                   ELSE [hit |-> TRUE, code |-> ERR_NONE, value |-> pages[i].value]
         ELSE ScanPages(pages, i + 1, key, t)

\* the loop over cf->sstables from index i (1-based) down to the oldest
RECURSIVE ScanSstables(_, _, _, _)
ScanSstables(list, i, key, t) ==
    IF i < 1 THEN [code |-> ERR_KEY_NOT_FOUND, value |-> TOMBSTONE]
    ELSE IF list[i] = NullSst THEN ScanSstables(list, i - 1, key, t)
    ELSE IF ~list[i].header THEN [code |-> ERR_BLOOM_READ, value |-> TOMBSTONE]
    ELSE IF key \notin list[i].bloom THEN ScanSstables(list, i - 1, key, t)
    ELSE LET r == ScanPages(list[i].pages, 1, key, t)
         IN  IF r.hit THEN [code |-> r.code, value |-> r.value]
             ELSE ScanSstables(list, i - 1, key, t)

\* tidesdb_get without the tombstone test on a memtable hit
tidesdb_get_memtable_unchecked(cf, key) ==
    LET m == SkiplistGet(memtable[cf], key, now)
    IN  IF m.found
        THEN [code |-> ERR_NONE, value |-> m.value]
        ELSE ScanSstables(sstables[cf], Len(sstables[cf]), key, now)

\* tidesdb_get(tdb, cf, key) with a caller buffer that is not the sentinel:
\* the memtable first, then the SSTables from the last one down
tidesdb_get(cf, key) ==
    LET m == SkiplistGet(memtable[cf], key, now)
    IN  IF m.found
        THEN IF IsTombstone(m.value)
             THEN [code |-> ERR_KEY_NOT_FOUND, value |-> TOMBSTONE]
             ELSE [code |-> ERR_NONE, value |-> m.value]
        ELSE ScanSstables(sstables[cf], Len(sstables[cf]), key, now)

\* what the caller's *value can hold when tidesdb_get is entered: one of
\* the values, or the 4-byte tombstone sentinel
Buffers == Values \cup {TOMBSTONE}

\* tidesdb_get(tdb, cf, key, value, value_size) from its first test on: the
\* caller's buffer is tested for the tombstone before anything is looked up,
\* error 1066
tidesdb_get_into(cf, key, buffer) ==
    IF IsTombstone(buffer)
    THEN [code |-> ERR_VALUE_TOMBSTONE, value |-> buffer]
    ELSE tidesdb_get(cf, key)

\* the two "Key not found" errors of tidesdb_get
KeyNotFound(r) == r.code \in {ERR_KEY_NOT_FOUND, ERR_KEY_EXPIRED}

(* ------------------------------ WAL ------------------------------------ *)

\* _append_to_wal: one page holding the serialized operation
AppendToWal(pages, op_code, cf, key, value, ttl) ==
    Append(pages, [op_code |-> op_code, column_family |-> cf,
                   key |-> key, value |-> value, ttl |-> ttl])

\* ReplayOp with the OP_DELETE case lost: only puts are replayed
ReplayOpPutsOnly(mems, op) ==
    IF op.op_code = OP_PUT
    THEN [mems EXCEPT ![op.column_family] =
              SkiplistPut(@, op.key, op.value, op.ttl)]
    ELSE mems

\* the effect of one WAL page on the memtables (_replay_from_wal, the switch)
ReplayOp(mems, op) ==
    IF op.op_code = OP_PUT
    THEN [mems EXCEPT ![op.column_family] =
              SkiplistPut(@, op.key, op.value, op.ttl)]
    ELSE [mems EXCEPT ![op.column_family] =
              SkiplistPut(@, op.key, TOMBSTONE, -1)]

\* _replay_from_wal passing over a page whose column family is missing
\* instead of leaving the loop
RECURSIVE ReplayFromWalSkipping(_, _, _)
ReplayFromWalSkipping(pages, i, mems) ==
    IF i > Len(pages) THEN mems
    ELSE IF pages[i].column_family \notin DOMAIN mems
         THEN ReplayFromWalSkipping(pages, i + 1, mems)
    ELSE ReplayFromWalSkipping(pages, i + 1, ReplayOp(mems, pages[i]))

\* _replay_from_wal: the pages in cursor order, from page i on; mems are
\* the memtables of the loaded column families, and a page whose column
\* family _get_column_family does not find ends the loop
RECURSIVE ReplayFromWal(_, _, _)
ReplayFromWal(pages, i, mems) ==
    IF i > Len(pages) THEN mems
    ELSE IF pages[i].column_family \notin DOMAIN mems THEN mems
    ELSE ReplayFromWal(pages, i + 1, ReplayOp(mems, pages[i]))

(* ------------------------------ flush ---------------------------------- *)

\* the entries _flush_memtable keeps: not a tombstone, not expired
LiveKeys(list, t) ==
    {k \in DOMAIN list : ~IsTombstone(list[k].value) /\ ~Expired(list[k].ttl, t)}

\* the SSTable of _flush_memtable with a bloom filter that received only the
\* first of the live keys
FlushedSstableFirstKeyBloom(list, t, id) ==
    LET ks == SortedSeq(LiveKeys(list, t))
    IN  [id |-> id, header |-> TRUE, bloom |-> {ks[i] : i \in {1} \cap DOMAIN ks},
         pages |-> [i \in 1..Len(ks) |->
                       [key |-> ks[i], value |-> list[ks[i]].value, ttl |-> -1]]]

\* the SSTable _flush_memtable writes from a snapshot: the bloom filter of
\* the live keys in page 0, then one page per live entry in key order, each
\* serialized with ttl -1
FlushedSstable(list, t, id) ==
    LET ks == SortedSeq(LiveKeys(list, t))
    IN  [id |-> id, header |-> TRUE, bloom |-> LiveKeys(list, t),
         pages |-> [i \in 1..Len(ks) |->
                       [key |-> ks[i], value |-> list[ks[i]].value, ttl |-> -1]]]

\* the file _flush_memtable leaves behind when it returns at bf->size == 0:
\* opened by pager_open, nothing written
EmptyFile(id) ==
    [id |-> id, header |-> FALSE, bloom |-> {}, pages |-> << >>]

(* ------------------------------ client calls --------------------------- *)

\* the names held by the catalog
CatalogNames(list) == {list[i] : i \in DOMAIN list}

\* _get_column_family / the search loop of tidesdb_drop_column_family: the
\* index of the first entry with that name, 0 when there is none
FirstIndex(list, name) ==
    IF name \in CatalogNames(list)
    THEN CHOOSE i \in DOMAIN list :
            list[i] = name /\ \A j \in 1..(i - 1) : list[j] # name
    ELSE 0

\* the flush trigger shared by tidesdb_put: snapshot, checkpoint, enqueue.
\* entry->cf is the pointer _get_column_family returned, the address of a
\* slot of the column_families array: the entry keeps the slot, and whether
\* the array has been reallocated since
EnqueueFlush(queue, cf, list, pages) ==
    Append(queue, [cf |-> cf, memtable |-> list, wal_checkpoint |-> Len(pages),
                   slot |-> FirstIndex(column_families, cf), realloc |-> FALSE])

\* tidesdb_put(tdb, cf, key, value, ttl)
tidesdb_put(cf, key, value, ttl) ==
    /\ opened
    /\ LET pages == AppendToWal(wal, OP_PUT, cf, key, value, ttl)
           list  == SkiplistPut(memtable[cf], key, value, ttl)
       IN  /\ wal' = pages
           /\ IF TotalSize(list) >= FlushThreshold
              THEN /\ flush_queue' = EnqueueFlush(flush_queue, cf, list, pages)
                   /\ memtable' = [memtable EXCEPT ![cf] = EmptySkiplist]
                   /\ triggered' = [triggered EXCEPT ![cf] = TRUE]
              ELSE /\ memtable' = [memtable EXCEPT ![cf] = list]
                   /\ UNCHANGED << flush_queue, triggered >>
    /\ ops' = ops + 1
    /\ acked' = [acked EXCEPT ![cf][key] = [op |-> OP_PUT, value |-> value, ttl |-> ttl]]
    /\ UNCHANGED << side_vars, now, opened, sstables, files, worker, id_gen, crashes, compacted >>

\* tidesdb_delete(tdb, cf, key): the WAL record carries ttl 0, the memtable
\* tombstone ttl -1; no flush trigger
tidesdb_delete(cf, key) ==
    /\ opened
    /\ wal' = AppendToWal(wal, OP_DELETE, cf, key, TOMBSTONE, 0)
    /\ memtable' = [memtable EXCEPT ![cf] = SkiplistPut(@, key, TOMBSTONE, -1)]
    /\ ops' = ops + 1
    /\ acked' = [acked EXCEPT ![cf][key] = [op |-> OP_DELETE, value |-> TOMBSTONE, ttl |-> -1]]
    /\ UNCHANGED << side_vars, now, opened, sstables, files, flush_queue, worker, id_gen,
                    crashes, triggered, compacted >>

(* ------------------------------ flush worker --------------------------- *)

\* _flush_memtable_thread taking the entry enqueued last
FlushDequeueNewest ==
    /\ opened
    /\ worker.pc = "wait"
    /\ Len(flush_queue) > 0
    /\ worker' = [pc |-> "flush", qe |-> flush_queue[Len(flush_queue)]]
    /\ flush_queue' = SubSeq(flush_queue, 1, Len(flush_queue) - 1)
    /\ UNCHANGED << side_vars, now, opened, memtable, sstables, files, wal, id_gen, ops,
                    crashes, acked, triggered, compacted >>

\* _flush_memtable_thread: queue_dequeue under flush_lock
FlushDequeue ==
    /\ opened
    /\ worker.pc = "wait"
    /\ Len(flush_queue) > 0
    /\ worker' = [pc |-> "flush", qe |-> Head(flush_queue)]
    /\ flush_queue' = Tail(flush_queue)
    /\ UNCHANGED << side_vars, now, opened, memtable, sstables, files, wal, id_gen, ops,
                    crashes, acked, triggered, compacted >>

\* _flush_memtable up to the release of sstables_lock: write the file and
\* append it to the list, or return false with no key in the bloom filter
FlushMemtable ==
    /\ opened
    /\ worker.pc = "flush"
    /\ LET cf == worker.qe.cf
           id == id_gen + 1
       IN  /\ id_gen' = id
           /\ IF LiveKeys(worker.qe.memtable, now) = {}
              THEN /\ files' = [files EXCEPT ![cf] = @ \cup {EmptyFile(id)}]
                   /\ worker' = [pc |-> "wait", qe |-> NoQueueEntry]
                   /\ UNCHANGED sstables
              ELSE LET sst == FlushedSstable(worker.qe.memtable, now, id)
                   IN  /\ files' = [files EXCEPT ![cf] = @ \cup {sst}]
                       /\ sstables' = [sstables EXCEPT ![cf] = Append(@, sst)]
                       /\ worker' = [worker EXCEPT !.pc = "truncate"]
    /\ UNCHANGED << side_vars, now, opened, memtable, wal, flush_queue, ops, crashes, acked,
                    triggered, compacted >>

\* where the flush of an entry whose pointer was taken before a realloc of
\* the array can land: the column family now in that slot when the block
\* stayed in place, any column family when the pointer dangles, or "" for a
\* flush that faults or writes into freed memory and publishes nothing
StaleTargets(qe) ==
    {column_families[i] : i \in {qe.slot} \cap DOMAIN column_families}
        \cup CatalogNames(column_families) \cup {""}

\* _flush_memtable(tdb, qe->cf, ...) through a pointer into the
\* column_families array that tidesdb_create_column_family or
\* tidesdb_drop_column_family has reallocated since the enqueue
FlushStalePointer ==
    /\ opened
    /\ worker.pc = "flush"
    /\ worker.qe.realloc
    /\ \E cf \in StaleTargets(worker.qe) :
          IF cf = ""
          THEN /\ worker' = [pc |-> "wait", qe |-> NoQueueEntry]
               /\ UNCHANGED << id_gen, files, sstables >>
          ELSE LET id  == id_gen + 1
                   sst == FlushedSstable(worker.qe.memtable, now, id)
               IN  /\ id_gen' = id
                   /\ IF LiveKeys(worker.qe.memtable, now) = {}
                      THEN /\ files' = [files EXCEPT ![cf] = @ \cup {EmptyFile(id)}]
                           /\ worker' = [pc |-> "wait", qe |-> NoQueueEntry]
                           /\ UNCHANGED sstables
                      ELSE /\ files' = [files EXCEPT ![cf] = @ \cup {sst}]
                           /\ sstables' = [sstables EXCEPT ![cf] = Append(@, sst)]
                           /\ worker' = [worker EXCEPT !.pc = "truncate"]
    /\ UNCHANGED << side_vars, now, opened, memtable, wal, flush_queue, ops, crashes, acked,
                    triggered, compacted >>

\* the SSTable _flush_memtable writes when serialize_key_value_pair or
\* pager_write fails for the entries in lost: the loop continues with the next
\* entry, the bloom filter page written before still names every live key
FlushedSstableSkipping(list, t, id, lost) ==
    LET ks == SortedSeq(LiveKeys(list, t) \ lost)
    IN  [id |-> id, header |-> TRUE, bloom |-> LiveKeys(list, t),
         pages |-> [i \in 1..Len(ks) |->
                       [key |-> ks[i], value |-> list[ks[i]].value, ttl |-> -1]]]

\* _flush_memtable up to the release of sstables_lock when the write of some
\* kv pages fails: the file is appended to the list all the same
FlushSkipPages ==
    /\ opened
    /\ worker.pc = "flush"
    /\ \E lost \in (SUBSET LiveKeys(worker.qe.memtable, now)) \ {{}} :
          LET cf  == worker.qe.cf
              sst == FlushedSstableSkipping(worker.qe.memtable, now, id_gen + 1, lost)
          IN  /\ id_gen' = id_gen + 1
              /\ files' = [files EXCEPT ![cf] = @ \cup {sst}]
              /\ sstables' = [sstables EXCEPT ![cf] = Append(@, sst)]
              /\ worker' = [worker EXCEPT !.pc = "truncate"]
    /\ UNCHANGED << side_vars, now, opened, memtable, wal, flush_queue, ops, crashes, acked,
                    triggered, compacted >>

\* _flush_memtable failing at pager_open, malloc or realloc: nothing published
FlushFail ==
    /\ opened
    /\ worker.pc = "flush"
    /\ worker' = [pc |-> "wait", qe |-> NoQueueEntry]
    /\ UNCHANGED << side_vars, now, opened, memtable, sstables, files, wal, flush_queue,
                    id_gen, ops, crashes, acked, triggered, compacted >>

\* _flush_memtable calling _truncate_wal first, before the file is written
\* and appended to the list
TruncateWalUnpublished ==
    /\ opened
    /\ worker.pc = "flush"
    /\ wal' = PagerTruncate(wal, worker.qe.wal_checkpoint)
    /\ worker' = [pc |-> "wait", qe |-> NoQueueEntry]
    /\ UNCHANGED << side_vars, now, opened, memtable, sstables, files, flush_queue, id_gen,
                    ops, crashes, acked, triggered, compacted >>

\* _truncate_wal(tdb->wal, wal_checkpoint), the last step of _flush_memtable
TruncateWal ==
    /\ opened
    /\ worker.pc = "truncate"
    /\ wal' = PagerTruncate(wal, worker.qe.wal_checkpoint)
    /\ worker' = [pc |-> "wait", qe |-> NoQueueEntry]
    /\ UNCHANGED << side_vars, now, opened, memtable, sstables, files, flush_queue, id_gen,
                    ops, crashes, acked, triggered, compacted >>

(* ------------------------------ compaction ----------------------------- *)

\* the test _merge_sstables applies before inserting a record in the merge
\* table: not a tombstone, and ttl > 0 && ttl > time(NULL)
MergeKeeps(kv, t) == ~IsTombstone(kv.value) /\ kv.ttl > 0 /\ kv.ttl > t

\* what one record does to the merge table
MergePut(table, kv, t) ==
    IF MergeKeeps(kv, t) THEN SkiplistPut(table, kv.key, kv.value, kv.ttl) ELSE table

\* the while (has_next1 || has_next2) loop: page j of the first input, then
\* page j of the second, for j = 1, 2, ...; no key is compared across inputs
RECURSIVE MergeLoop(_, _, _, _, _)
MergeLoop(pages1, pages2, j, table, t) ==
    IF j > Len(pages1) /\ j > Len(pages2) THEN table
    ELSE LET t1 == IF j <= Len(pages1) THEN MergePut(table, pages1[j], t) ELSE table
             t2 == IF j <= Len(pages2) THEN MergePut(t1, pages2[j], t) ELSE t1
         IN  MergeLoop(pages1, pages2, j + 1, t2, t)

\* _merge_sstables without the mergetable->total_size == 0 return: an empty
\* merge table is written out as an SSTable with no kv page
MergeSstablesKeepEmpty(sst1, sst2, t, id) ==
    IF sst1 = NullSst \/ sst2 = NullSst \/ ~sst1.header \/ ~sst2.header THEN NullSst
    ELSE LET table == MergeLoop(sst1.pages, sst2.pages, 1, EmptySkiplist, t)
             ks    == SortedSeq(DOMAIN table)
         IN  [id |-> id, header |-> TRUE, bloom |-> DOMAIN table,
              pages |-> [i \in 1..Len(ks) |->
                            [key |-> ks[i], value |-> table[ks[i]].value,
                             ttl |-> table[ks[i]].ttl]]]

\* _merge_sstables(sst1, sst2, cf): the new SSTable, or NULL when an input has
\* no page or the merge table stays empty
MergeSstables(sst1, sst2, t, id) ==
    IF sst1 = NullSst \/ sst2 = NullSst \/ ~sst1.header \/ ~sst2.header THEN NullSst
    ELSE LET table == MergeLoop(sst1.pages, sst2.pages, 1, EmptySkiplist, t)
             ks    == SortedSeq(DOMAIN table)
         IN  IF TotalSize(table) = 0 THEN NullSst
             ELSE [id |-> id, header |-> TRUE, bloom |-> DOMAIN table,
                   pages |-> [i \in 1..Len(ks) |->
                                 [key |-> ks[i], value |-> table[ks[i]].value,
                                  ttl |-> table[ks[i]].ttl]]]

\* _compare_sstables as written, on the two modification times
CompareSstables(mtime1, mtime2) ==
    (IF mtime1 < mtime2 THEN 1 ELSE 0) - (IF mtime1 > mtime2 THEN 1 ELSE 0)

\* the orders qsort may leave: _compare_sstables is handed sstable** and
\* reads them as sstable*, so the times it compares are not the files'
\* times and any arrangement of the elements can result
QsortOutcomes(list) ==
    LET n == Len(list)
        perms == {p \in [1..n -> 1..n] : \A i, j \in 1..n : i # j => p[i] # p[j]}
    IN  {[i \in 1..n |-> list[p[i]]] : p \in perms}

\* sstables_per_thread
SstablesPerThread(n, max_threads) == (n + max_threads - 1) \div max_threads

\* thread i's start computed from floor(n / max_threads) slots per thread
ThreadStartFloor(i, n, max_threads) == i * (n \div max_threads)

\* thread i's range [start, end) of 0-based slots
ThreadStart(i, n, max_threads) == i * SstablesPerThread(n, max_threads)

ThreadEnd(i, n, max_threads) ==
    Min((i + 1) * SstablesPerThread(n, max_threads), n)

\* the 0-based slots j at which some _compact_sstables_thread merges the
\* pair (j, j+1): j = start, start+2, ... while j < end - 1 and j + 1 < n
PairStarts(n, max_threads) ==
    {j \in 0..(n - 1) :
        \E i \in 0..(max_threads - 1) :
            /\ ThreadStart(i, n, max_threads) <= j
            /\ j < ThreadEnd(i, n, max_threads) - 1
            /\ (j - ThreadStart(i, n, max_threads)) % 2 = 0
            /\ j + 1 < n}

\* the 0-based slots j at which thread i merges the pair (j, j+1): the loop
\* for (j = start; j < end - 1; j += 2) with its break at j + 1 >= n
ThreadPairs(i, n, max_threads) ==
    {j \in 0..(n - 1) :
        /\ ThreadStart(i, n, max_threads) <= j
        /\ j < ThreadEnd(i, n, max_threads) - 1
        /\ (j - ThreadStart(i, n, max_threads)) % 2 = 0
        /\ j + 1 < n}

\* the slots thread i reads, frees or stores to
ThreadSlots(i, n, max_threads) ==
    UNION {{j, j + 1} : j \in ThreadPairs(i, n, max_threads)}

\* the result of the merge a thread runs on the pair starting at 0-based j
PairMerge(list, j, t, base, starts) ==
    MergeSstables(list[j + 1], list[j + 2], t,
                  base + 1 + Cardinality({x \in starts : x < j}))

\* cf->sstables after all threads have joined, NULL slots still in place
AfterThreads(list, max_threads, t, base) ==
    LET n == Len(list)
        starts == PairStarts(n, max_threads)
    IN  [s \in 1..n |->
            IF (s - 1) \in starts /\ PairMerge(list, s - 1, t, base, starts) # NullSst
            THEN PairMerge(list, s - 1, t, base, starts)
            ELSE IF (s - 2) \in starts /\ PairMerge(list, s - 2, t, base, starts) # NullSst
                 THEN NullSst
                 ELSE list[s]]

\* "we remove the null sstables": the non-NULL slots, in order
RECURSIVE RemoveNull(_)
RemoveNull(list) ==
    IF list = << >> THEN << >>
    ELSE IF Head(list) = NullSst THEN RemoveNull(Tail(list))
         ELSE << Head(list) >> \o RemoveNull(Tail(list))

Elements(list) == {list[i] : i \in 1..Len(list)}

\* tidesdb_compact_sstables(tdb, cf, max_threads)
tidesdb_compact_sstables(cf, max_threads) ==
    /\ opened
    /\ Len(sstables[cf]) >= 2
    /\ \E sorted \in QsortOutcomes(sstables[cf]) :
          LET n      == Len(sorted)
              slots  == AfterThreads(sorted, max_threads, now, id_gen)
              result == RemoveNull(slots)
          IN  /\ sstables' = [sstables EXCEPT ![cf] = result]
              /\ files' = [files EXCEPT ![cf] =
                              (@ \ (Elements(sorted) \ Elements(result)))
                                 \cup Elements(result)]
              /\ id_gen' = id_gen + Cardinality(PairStarts(n, max_threads))
              /\ compacted' =
                    [cf |-> cf, max_threads |-> max_threads,
                     before |-> sstables[cf], sorted |-> sorted, slots |-> slots,
                     merged |-> {j \in PairStarts(n, max_threads) : slots[j + 1] # sorted[j + 1]},
                     after |-> result,
                     deleted |-> {k \in Keys : acked[cf][k].op = OP_DELETE}]
    /\ UNCHANGED << side_vars, now, opened, memtable, wal, flush_queue, worker, ops, crashes, acked,
                    triggered >>

(* ------------------------------ lifecycle ------------------------------ *)

\* the process dies: memory is lost, the WAL and the .sst files stay
Crash ==
    /\ opened
    /\ opened' = FALSE
    /\ crashes' = crashes + 1
    /\ memtable' = [cf \in ColumnFamilies |-> EmptySkiplist]
    /\ sstables' = [cf \in ColumnFamilies |-> << >>]
    /\ flush_queue' = << >>
    /\ worker' = [pc |-> "wait", qe |-> NoQueueEntry]
    /\ column_families' = << >>
    /\ UNCHANGED << txn, directories, created, shutdown, threads, cursor, now, files, wal,
                    id_gen, ops, acked, triggered, compacted >>

\* _load_sstables(cf): the lists it can build - it returns after the first
\* .sst entry readdir yields
LoadSstables(cf) ==
    IF files[cf] = {} THEN {<< >>} ELSE {<< f >> : f \in files[cf]}

\* _load_column_families: one column family per directory that holds a
\* config file, added in the order readdir yields them
LoadColumnFamilies ==
    {list \in UNION {[1..n -> directories] : n \in {Cardinality(directories)}} :
        \A name \in directories : \E i \in DOMAIN list : list[i] = name}

\* tidesdb_open: load the column families and their SSTables, start the
\* flush thread, replay the WAL into the fresh memtables
tidesdb_open ==
    /\ ~opened
    /\ opened' = TRUE
    /\ column_families' \in LoadColumnFamilies
    /\ \E loaded \in [ColumnFamilies -> UNION {LoadSstables(cf) : cf \in ColumnFamilies}] :
          /\ \A cf \in ColumnFamilies : loaded[cf] \in LoadSstables(cf)
          /\ sstables' = loaded
    /\ LET replayed == ReplayFromWal(wal, 1, [cf \in directories |-> EmptySkiplist])
       IN  memtable' = [cf \in ColumnFamilies |->
                           IF cf \in directories THEN replayed[cf] ELSE EmptySkiplist]
    \* (an open that fails, as when _add_column_family cannot take the
    \* column_families_lock that is initialised only later, changes nothing)
    /\ shutdown' = [shutdown EXCEPT !.stop_flush_thread = FALSE]
    /\ UNCHANGED << txn, directories, created, threads, cursor, now, files, wal, flush_queue,
                    worker, id_gen, ops, crashes, acked, triggered, compacted >>

\* a second passes
Tick ==
    /\ now < MaxTime
    /\ now' = now + 1
    /\ UNCHANGED << side_vars, opened, memtable, sstables, files, wal, flush_queue, worker,
                    id_gen, ops, crashes, acked, triggered, compacted >>

(* ------------------------------ transactions --------------------------- *)

\* skiplist_delete: the node of the key is unlinked
SkiplistDelete(list, key) == [k \in DOMAIN list \ {key} |-> list[k]]

\* what tidesdb_txn_put leaves in rollback_op: the field is never assigned
Uninitialized == "uninitialized"

\* tidesdb_txn_begin(&txn, cf)
tidesdb_txn_begin(cf) ==
    /\ opened
    /\ txn.status = "none"
    /\ txn' = [status |-> "open", column_family |-> cf, ops |-> << >>, before |-> << >>]
    /\ UNCHANGED << now, opened, memtable, sstables, files, wal, flush_queue, worker,
                    id_gen, ops, crashes, acked, triggered, compacted,
                    column_families, directories, created, shutdown,
                    threads, cursor >>

\* tidesdb_txn_put(txn, key, value, ttl): the operation is buffered
tidesdb_txn_put(key, value, ttl) ==
    /\ txn.status = "open"
    /\ txn' = [txn EXCEPT !.ops =
                  Append(@, [op_code |-> OP_PUT, key |-> key, value |-> value,
                             ttl |-> ttl, committed |-> FALSE,
                             rollback_op |-> Uninitialized])]
    /\ UNCHANGED << now, opened, memtable, sstables, files, wal, flush_queue, worker,
                    id_gen, ops, crashes, acked, triggered, compacted,
                    column_families, directories, created, shutdown,
                    threads, cursor >>

\* tidesdb_txn_delete(txn, key): buffered with a NULL value and ttl 0, and
\* with a rollback operation whose op_code is OP_PUT
tidesdb_txn_delete(key) ==
    /\ txn.status = "open"
    /\ txn' = [txn EXCEPT !.ops =
                  Append(@, [op_code |-> OP_DELETE, key |-> key, value |-> TOMBSTONE,
                             ttl |-> 0, committed |-> FALSE,
                             rollback_op |-> OP_PUT])]
    /\ UNCHANGED << now, opened, memtable, sstables, files, wal, flush_queue, worker,
                    id_gen, ops, crashes, acked, triggered, compacted,
                    column_families, directories, created, shutdown,
                    threads, cursor >>

\* the loop of tidesdb_txn_commit over the operations from index i on:
\* a put is inserted as it is, a delete as a tombstone with ttl 0
RECURSIVE CommitOps(_, _, _)
CommitOps(list, oplist, i) ==
    IF i > Len(oplist) THEN list
    ELSE IF oplist[i].committed THEN CommitOps(list, oplist, i + 1)
    ELSE IF oplist[i].op_code = OP_PUT
         THEN CommitOps(SkiplistPut(list, oplist[i].key, oplist[i].value, oplist[i].ttl),
                        oplist, i + 1)
         ELSE CommitOps(SkiplistPut(list, oplist[i].key, TOMBSTONE, 0), oplist, i + 1)

\* the keys the operations of a transaction name
Touched(oplist) == {oplist[i].key : i \in 1..Len(oplist)}

\* the last operation of a transaction on key k
LastOp(oplist, k) ==
    oplist[CHOOSE i \in 1..Len(oplist) :
              /\ oplist[i].key = k
              /\ \A j \in (i + 1)..Len(oplist) : oplist[j].key # k]

\* tidesdb_txn_commit(tdb, txn): under the write lock of the memtable, which
\* no return releases, the operations go to the memtable (not to the WAL),
\* then the flush trigger of tidesdb_put
tidesdb_txn_commit ==
    /\ opened
    /\ txn.status = "open"
    /\ LET cf   == txn.column_family
           list == CommitOps(memtable[cf], txn.ops, 1)
       IN  /\ IF TotalSize(list) >= FlushThreshold
              THEN /\ flush_queue' = EnqueueFlush(flush_queue, cf, list, wal)
                   /\ memtable' = [memtable EXCEPT ![cf] = EmptySkiplist]
                   /\ triggered' = [triggered EXCEPT ![cf] = TRUE]
              ELSE /\ memtable' = [memtable EXCEPT ![cf] = list]
                   /\ UNCHANGED << flush_queue, triggered >>
           /\ acked' = [acked EXCEPT ![cf] =
                           [k \in Keys |->
                               IF k \in Touched(txn.ops)
                               THEN [op |-> LastOp(txn.ops, k).op_code,
                                     value |-> LastOp(txn.ops, k).value,
                                     ttl |-> LastOp(txn.ops, k).ttl]
                               ELSE @[k]]]
           /\ txn' = [txn EXCEPT
                         !.status = "committed",
                         !.ops = [i \in 1..Len(txn.ops) |->
                                     [txn.ops[i] EXCEPT !.committed = TRUE]],
                         !.before = [k \in Keys |-> tidesdb_get(cf, k)]]
    /\ threads' = [threads EXCEPT !.memtable_lock[txn.column_family] = "commit"]
    /\ UNCHANGED << now, opened, sstables, files, wal, worker, id_gen, ops, crashes,
                    compacted, column_families, directories, created, shutdown,
                    cursor >>

\* what reading the rollback operation of a committed put can do: the
\* pointer was never set, so the read may kill the process, or yield an
\* op_code that selects the skiplist_delete case, or one that selects nothing
RollbackReads == {"crash", OP_PUT, "default"}

\* the loop of tidesdb_txn_rollback over the operations from index i on;
\* `read` is the op_code an uninitialized rollback operation yields
RECURSIVE RollbackOps(_, _, _, _)
RollbackOps(list, oplist, i, read) ==
    IF i > Len(oplist) THEN list
    ELSE IF ~oplist[i].committed THEN RollbackOps(list, oplist, i + 1, read)
    ELSE LET code == IF oplist[i].rollback_op = Uninitialized THEN read
                     ELSE oplist[i].rollback_op
         IN  IF code = OP_PUT
             THEN RollbackOps(SkiplistDelete(list, oplist[i].key), oplist, i + 1, read)
             ELSE RollbackOps(list, oplist, i + 1, read)

\* tidesdb_txn_rollback(tdb, txn), then tidesdb_txn_free
tidesdb_txn_rollback ==
    /\ opened
    /\ txn.status \in {"open", "committed"}
    /\ \E read \in RollbackReads :
          IF /\ read = "crash"
             /\ \E i \in 1..Len(txn.ops) :
                   txn.ops[i].committed /\ txn.ops[i].rollback_op = Uninitialized
          THEN /\ opened' = FALSE
               /\ crashes' = crashes + 1
               /\ memtable' = [cf \in ColumnFamilies |-> EmptySkiplist]
               /\ sstables' = [cf \in ColumnFamilies |-> << >>]
               /\ flush_queue' = << >>
               /\ worker' = [pc |-> "wait", qe |-> NoQueueEntry]
               /\ column_families' = << >>
               /\ txn' = [txn EXCEPT !.status = "lost"]
          ELSE /\ memtable' = [memtable EXCEPT ![txn.column_family] =
                                  RollbackOps(@, txn.ops, 1, read)]
               /\ txn' = [txn EXCEPT !.status =
                             IF txn.status = "committed" THEN "rolled back" ELSE "freed"]
               /\ UNCHANGED << opened, crashes, sstables, flush_queue, worker,
                               column_families >>
    /\ UNCHANGED << now, files, wal, id_gen, ops, acked, triggered, compacted,
                    directories, created, shutdown, threads, cursor >>

(* ------------------------------ column families ----------------------- *)

\* what a realloc or free of the column_families array does to the pointer
\* a queue entry holds: it no longer has to denote the slot it was taken from
Realloc(qe) == IF qe = NoQueueEntry THEN qe ELSE [qe EXCEPT !.realloc = TRUE]

ReallocQueue(queue) == [i \in DOMAIN queue |-> Realloc(queue[i])]

\* the array without its entry at index
RemoveAt(list, index) ==
    [i \in 1..(Len(list) - 1) |-> IF i < index THEN list[i] ELSE list[i + 1]]

\* tidesdb_create_column_family: the arguments are validated, then
\* _new_column_family makes the directory (kept when it already exists) and
\* writes the config file, and _add_column_family appends the entry; the
\* catalog is never searched for the name
tidesdb_create_column_family(name) ==
    /\ opened
    /\ Len(column_families) < MaxColumnFamilies
    /\ column_families' = Append(column_families, name)
    /\ directories' = directories \cup {name}
    /\ created' = [name |-> name,
                   existed |-> name \in CatalogNames(column_families),
                   code |-> ERR_NONE]
    /\ flush_queue' = ReallocQueue(flush_queue)
    /\ worker' = [worker EXCEPT !.qe = Realloc(@)]
    /\ UNCHANGED << txn, shutdown, threads, cursor, now, opened, memtable, sstables, files, wal,
                    id_gen, ops, crashes, acked, triggered, compacted >>

\* tidesdb_drop_column_family: the first entry with that name is freed, its
\* directory is removed with every file in it, and the array is closed up
tidesdb_drop_column_family(name) ==
    /\ opened
    /\ LET index == FirstIndex(column_families, name) IN
       IF index = 0
       THEN UNCHANGED << column_families, directories, memtable, sstables, files,
                         flush_queue, worker >>
       ELSE /\ column_families' = RemoveAt(column_families, index)
            /\ directories' = directories \ {name}
            /\ memtable' = [memtable EXCEPT ![name] = EmptySkiplist]
            /\ sstables' = [sstables EXCEPT ![name] = << >>]
            /\ files' = [files EXCEPT ![name] = {}]
            /\ flush_queue' = ReallocQueue(flush_queue)
            /\ worker' = [worker EXCEPT !.qe = Realloc(@)]
    /\ UNCHANGED << txn, created, shutdown, threads, cursor, now, opened, wal,
                    id_gen, ops, crashes, acked, triggered, compacted >>

(* ------------------------------ shutdown ------------------------------ *)

\* tidesdb_close has freed the column families and has not returned
ColumnFamiliesFreed == shutdown.pc \in {"freed", "stopped", "signalled"}

\* tidesdb_close, first step: _free_column_families under the
\* column_families_lock - every memtable, SSTable list, path, id generator
\* and sstables_lock is destroyed and the array is freed
CloseFreeColumnFamilies ==
    /\ opened
    /\ shutdown.pc = "none"
    /\ shutdown' = [shutdown EXCEPT !.pc = "freed"]
    /\ memtable' = [cf \in ColumnFamilies |-> EmptySkiplist]
    /\ sstables' = [cf \in ColumnFamilies |-> << >>]
    /\ column_families' = << >>
    /\ UNCHANGED << txn, directories, created, threads, cursor, now, opened, files, wal,
                    flush_queue, worker, id_gen, ops, crashes, acked, triggered,
                    compacted >>

\* tidesdb_close: tdb->stop_flush_thread = true
CloseStop ==
    /\ shutdown.pc = "freed"
    /\ shutdown' = [pc |-> "stopped", stop_flush_thread |-> TRUE]
    /\ UNCHANGED << txn, column_families, directories, created, threads, cursor, now, opened, memtable,
                    sstables, files, wal, flush_queue, worker, id_gen, ops, crashes,
                    acked, triggered, compacted >>

\* tidesdb_close: flush_cond is signalled with flush_lock held; the worker
\* tests its wait condition with flush_lock held too, so it cannot miss it
CloseSignal ==
    /\ shutdown.pc = "stopped"
    /\ shutdown' = [shutdown EXCEPT !.pc = "signalled"]
    /\ UNCHANGED << txn, column_families, directories, created, threads, cursor, now, opened, memtable,
                    sstables, files, wal, flush_queue, worker, id_gen, ops, crashes,
                    acked, triggered, compacted >>

\* _flush_memtable_thread: stop_flush_thread is seen, the loop is left and,
\* nothing being left in the queue, the thread returns
FlushThreadExit ==
    /\ opened
    /\ worker.pc = "wait"
    /\ shutdown.stop_flush_thread
    /\ flush_queue = << >>
    /\ worker' = [pc |-> "exited", qe |-> NoQueueEntry]
    /\ UNCHANGED << side_vars, now, opened, memtable, sstables, files, wal, flush_queue,
                    id_gen, ops, crashes, acked, triggered, compacted >>

\* _flush_memtable(tdb, qe->cf, ...) when qe->cf points into the array that
\* _free_column_families has freed: the outcome in which the read of cf->path
\* or the wrlock of the destroyed cf->sstables_lock kills the process (the
\* outcome in which the freed memory still reads as before is FlushMemtable)
FlushUseAfterFree ==
    /\ opened
    /\ worker.pc = "flush"
    /\ ColumnFamiliesFreed
    /\ opened' = FALSE
    /\ crashes' = crashes + 1
    /\ shutdown' = [shutdown EXCEPT !.pc = "died"]
    /\ memtable' = [cf \in ColumnFamilies |-> EmptySkiplist]
    /\ sstables' = [cf \in ColumnFamilies |-> << >>]
    /\ flush_queue' = << >>
    /\ worker' = [pc |-> "wait", qe |-> NoQueueEntry]
    /\ column_families' = << >>
    /\ UNCHANGED << txn, directories, created, threads, cursor, now, files, wal, id_gen, ops,
                    acked, triggered, compacted >>

\* tidesdb_close: pthread_join returns, the locks, the queue and the WAL
\* handle are destroyed, tdb is freed
CloseReturn ==
    /\ opened
    /\ shutdown.pc = "signalled"
    /\ worker.pc = "exited"
    /\ shutdown' = [shutdown EXCEPT !.pc = "returned"]
    /\ opened' = FALSE
    /\ memtable' = [cf \in ColumnFamilies |-> EmptySkiplist]
    /\ sstables' = [cf \in ColumnFamilies |-> << >>]
    /\ worker' = [pc |-> "wait", qe |-> NoQueueEntry]
    /\ UNCHANGED << txn, column_families, directories, created, threads, cursor, now, files,
                    wal, flush_queue, id_gen, ops, crashes, acked, triggered, compacted >>

(* ------------------------------ locking -------------------------------- *)

\* everything but the threads' positions and the locks
engine_vars ==
    << now, opened, memtable, sstables, files, wal, flush_queue, worker, id_gen, ops,
       crashes, acked, triggered, compacted, txn, column_families, directories,
       created, shutdown, cursor >>

\* everything but the cursor
engine_vars_but_cursor ==
    << now, opened, memtable, sstables, files, wal, flush_queue, worker, id_gen, ops,
       crashes, acked, triggered, compacted, txn, column_families, directories,
       created, shutdown, threads >>

\* tidesdb_get: the column family is looked up and the memtable misses
GetBegin(cf) ==
    /\ threads.get.pc = "idle"
    /\ threads' = [threads EXCEPT !.get = [pc |-> "memtable", cf |-> cf]]
    /\ UNCHANGED engine_vars

\* tidesdb_get: pthread_mutex_lock(&tdb->flush_lock), then the loop over
\* cf->sstables starts; no other lock is taken
GetLockFlush ==
    /\ threads.get.pc = "memtable"
    /\ threads.flush_lock = ""
    /\ threads' = [threads EXCEPT !.flush_lock = "get", !.get.pc = "scan"]
    /\ UNCHANGED engine_vars

\* tidesdb_get: every way out of the loop unlocks flush_lock
GetUnlockFlush ==
    /\ threads.get.pc = "scan"
    /\ threads' = [threads EXCEPT !.flush_lock = "", !.get = [pc |-> "idle", cf |-> ""]]
    /\ UNCHANGED engine_vars

\* tidesdb_compact_sstables: pthread_rwlock_wrlock(&cf->sstables_lock), then
\* the qsort of cf->sstables
CompactLockSstables(cf) ==
    /\ threads.compact.pc = "idle"
    /\ threads.sstables_lock[cf] = ""
    /\ threads' = [threads EXCEPT !.sstables_lock[cf] = "compact",
                                  !.compact = [pc |-> "sort", cf |-> cf]]
    /\ UNCHANGED engine_vars

\* tidesdb_compact_sstables: the compaction threads replace pairs in place
CompactMerge ==
    /\ threads.compact.pc = "sort"
    /\ threads' = [threads EXCEPT !.compact.pc = "merge"]
    /\ UNCHANGED engine_vars

\* tidesdb_compact_sstables: the NULL slots are removed, num_sstables is
\* updated and sstables_lock is unlocked
CompactUnlockSstables ==
    /\ threads.compact.pc = "merge"
    /\ threads' = [threads EXCEPT !.sstables_lock[threads.compact.cf] = "",
                                  !.compact = [pc |-> "idle", cf |-> ""]]
    /\ UNCHANGED engine_vars

\* _flush_memtable_thread: pthread_mutex_lock(&tdb->flush_lock) with an entry
\* in the queue
FlushLockQueue ==
    /\ threads.flush.pc = "wait"
    /\ threads.flush_lock = ""
    /\ threads' = [threads EXCEPT !.flush_lock = "flush", !.flush.pc = "dequeue"]
    /\ UNCHANGED engine_vars

\* _flush_memtable_thread: queue_dequeue, then flush_lock is unlocked before
\* _flush_memtable is called for the entry's column family
FlushUnlockQueue(cf) ==
    /\ threads.flush.pc = "dequeue"
    /\ threads' = [threads EXCEPT !.flush_lock = "",
                                  !.flush = [pc |-> "dequeued", cf |-> cf]]
    /\ UNCHANGED engine_vars

\* _flush_memtable: pthread_rwlock_wrlock(&cf->sstables_lock), then the file
\* is written
FlushLockSstables ==
    /\ threads.flush.pc = "dequeued"
    /\ threads.sstables_lock[threads.flush.cf] = ""
    /\ threads' = [threads EXCEPT !.sstables_lock[threads.flush.cf] = "flush",
                                  !.flush.pc = "write"]
    /\ UNCHANGED engine_vars

\* _flush_memtable: the file is complete; cf->sstables is realloc'ed and the
\* new SSTable stored in it
FlushPublish ==
    /\ threads.flush.pc = "write"
    /\ threads' = [threads EXCEPT !.flush.pc = "publish"]
    /\ UNCHANGED engine_vars

\* _flush_memtable: num_sstables++, sstables_lock is unlocked, the WAL is
\* truncated and the thread goes back to the top of its loop
FlushUnlockSstables ==
    /\ threads.flush.pc = "publish"
    /\ threads' = [threads EXCEPT !.sstables_lock[threads.flush.cf] = "",
                                  !.flush = [pc |-> "wait", cf |-> ""]]
    /\ UNCHANGED engine_vars

(* ------------------------------ writers -------------------------------- *)

\* the column family the writer threads put to
WriterColumnFamily == "cf1"

\* a name no column family has
UnknownColumnFamily == "cf3"

\* the key a writer thread puts
WriterKey(w) == IF w = "w1" THEN 1 ELSE 2

\* tidesdb_put of writer w, _append_to_wal: pager_write on the WAL begins;
\* wal->lock is not taken
PutAppendBegin(w, key, value) ==
    /\ opened
    /\ threads.put[w].pc = "idle"
    /\ threads' = [threads EXCEPT !.put[w] = [pc |-> "wal_write", key |-> key,
                                              value |-> value, snapshot |-> << >>,
                                              code |-> ERR_NONE]]
    /\ ops' = ops + 1
    /\ UNCHANGED << now, opened, memtable, sstables, files, wal, flush_queue, worker,
                    id_gen, crashes, acked, triggered, compacted, txn, column_families,
                    directories, created, shutdown, cursor >>

\* _append_to_wal: pager_write has written the page
PutAppendEnd(w) ==
    /\ threads.put[w].pc = "wal_write"
    /\ wal' = AppendToWal(wal, OP_PUT, WriterColumnFamily, threads.put[w].key,
                          threads.put[w].value, -1)
    /\ threads' = [threads EXCEPT !.put[w].pc = "appended"]
    /\ UNCHANGED << now, opened, memtable, sstables, files, flush_queue, worker, id_gen,
                    ops, crashes, acked, triggered, compacted, txn, column_families,
                    directories, created, shutdown, cursor >>

\* tidesdb_put: skiplist_put, then the test of the flush threshold; below
\* the threshold the call returns
PutMemtable(w) ==
    /\ threads.put[w].pc = "appended"
    /\ LET cf   == WriterColumnFamily
           list == SkiplistPut(memtable[cf], threads.put[w].key, threads.put[w].value, -1)
       IN  /\ memtable' = [memtable EXCEPT ![cf] = list]
           /\ IF TotalSize(list) >= FlushThreshold
              THEN /\ threads' = [threads EXCEPT !.put[w].pc = "trigger"]
                   /\ UNCHANGED acked
              ELSE /\ threads' = [threads EXCEPT !.put[w] = NoPut]
                   /\ acked' = [acked EXCEPT ![cf][threads.put[w].key] =
                                   [op |-> OP_PUT, value |-> threads.put[w].value,
                                    ttl |-> -1]]
    /\ UNCHANGED << now, opened, sstables, files, wal, flush_queue, worker, id_gen, ops,
                    crashes, triggered, compacted, txn, column_families, directories,
                    created, shutdown, cursor >>

\* tidesdb_put: pthread_mutex_lock(&tdb->flush_lock)
PutLockFlush(w) ==
    /\ threads.put[w].pc = "trigger"
    /\ threads.flush_lock = ""
    /\ threads' = [threads EXCEPT !.flush_lock = w, !.put[w].pc = "locked"]
    /\ UNCHANGED engine_vars

\* tidesdb_put: skiplist_copy, pager_size, queue_enqueue, pthread_cond_signal
PutSnapshot(w) ==
    /\ threads.put[w].pc = "locked"
    /\ LET cf == WriterColumnFamily
       IN  /\ flush_queue' = EnqueueFlush(flush_queue, cf, memtable[cf], wal)
           /\ triggered' = [triggered EXCEPT ![cf] = TRUE]
           /\ threads' = [threads EXCEPT !.put[w].pc = "copied",
                                         !.put[w].snapshot = memtable[cf]]
    /\ UNCHANGED << now, opened, memtable, sstables, files, wal, worker, id_gen, ops,
                    crashes, acked, compacted, txn, column_families, directories,
                    created, shutdown, cursor >>

\* tidesdb_put: skiplist_clear, pthread_mutex_unlock, return
PutClear(w) ==
    /\ threads.put[w].pc = "copied"
    /\ LET cf == WriterColumnFamily
       IN  /\ memtable' = [memtable EXCEPT ![cf] = EmptySkiplist]
           /\ acked' = [acked EXCEPT ![cf][threads.put[w].key] =
                           [op |-> OP_PUT, value |-> threads.put[w].value, ttl |-> -1]]
    /\ threads' = [threads EXCEPT !.flush_lock = "", !.put[w] = NoPut]
    /\ UNCHANGED << now, opened, sstables, files, wal, flush_queue, worker, id_gen, ops,
                    crashes, triggered, compacted, txn, column_families, directories,
                    created, shutdown, cursor >>

\* tidesdb_put or tidesdb_delete naming a column family that
\* _get_column_family does not find: error 1028 before anything is written
WriteColumnFamilyNotFound(w, name) ==
    /\ opened
    /\ threads.put[w].pc = "idle"
    /\ FirstIndex(column_families, name) = 0
    /\ threads' = [threads EXCEPT !.put[w] = [NoPut EXCEPT !.code = ERR_CF_NOT_FOUND]]
    /\ ops' = ops + 1
    /\ UNCHANGED << now, opened, memtable, sstables, files, wal, flush_queue, worker,
                    id_gen, crashes, acked, triggered, compacted, txn, column_families,
                    directories, created, shutdown, cursor >>

\* tidesdb_put with skiplist_put ahead of _append_to_wal: the entry is in
\* the memtable when the page write fails
PutAppendFailAfterInsert(w) ==
    /\ threads.put[w].pc = "wal_write"
    /\ memtable' = [memtable EXCEPT ![WriterColumnFamily] =
                        SkiplistPut(@, threads.put[w].key, threads.put[w].value, -1)]
    /\ threads' = [threads EXCEPT !.put[w] = [NoPut EXCEPT !.code = ERR_PUT_WAL]]
    /\ UNCHANGED << now, opened, sstables, files, wal, flush_queue, worker, id_gen, ops,
                    crashes, acked, triggered, compacted, txn, column_families,
                    directories, created, shutdown, cursor >>

\* tidesdb_put: _append_to_wal returns false (pager_write failed), error 1049
PutAppendFail(w) ==
    /\ threads.put[w].pc = "wal_write"
    /\ threads' = [threads EXCEPT !.put[w] = [NoPut EXCEPT !.code = ERR_PUT_WAL]]
    /\ UNCHANGED engine_vars

\* tidesdb_delete of writer w, _append_to_wal: pager_write on the WAL begins
DeleteAppendBegin(w, key) ==
    /\ opened
    /\ threads.put[w].pc = "idle"
    /\ threads' = [threads EXCEPT !.put[w] = [pc |-> "delete_wal_write", key |-> key,
                                              value |-> TOMBSTONE, snapshot |-> << >>,
                                              code |-> ERR_NONE]]
    /\ ops' = ops + 1
    /\ UNCHANGED << now, opened, memtable, sstables, files, wal, flush_queue, worker,
                    id_gen, crashes, acked, triggered, compacted, txn, column_families,
                    directories, created, shutdown, cursor >>

\* tidesdb_delete: _append_to_wal returns false, error 1029
DeleteAppendFail(w) ==
    /\ threads.put[w].pc = "delete_wal_write"
    /\ threads' = [threads EXCEPT !.put[w] = [NoPut EXCEPT !.code = ERR_DELETE_WAL]]
    /\ UNCHANGED engine_vars

\* tidesdb_delete: the page of the OP_DELETE record, ttl 0, is written
DeleteAppendEnd(w) ==
    /\ threads.put[w].pc = "delete_wal_write"
    /\ wal' = AppendToWal(wal, OP_DELETE, WriterColumnFamily, threads.put[w].key,
                          TOMBSTONE, 0)
    /\ threads' = [threads EXCEPT !.put[w].pc = "delete_appended"]
    /\ UNCHANGED << now, opened, memtable, sstables, files, flush_queue, worker, id_gen,
                    ops, crashes, acked, triggered, compacted, txn, column_families,
                    directories, created, shutdown, cursor >>

\* tidesdb_delete: skiplist_put of the tombstone with ttl -1, and the return
DeleteMemtable(w) ==
    /\ threads.put[w].pc = "delete_appended"
    /\ memtable' = [memtable EXCEPT ![WriterColumnFamily] =
                        SkiplistPut(@, threads.put[w].key, TOMBSTONE, -1)]
    /\ acked' = [acked EXCEPT ![WriterColumnFamily][threads.put[w].key] =
                    [op |-> OP_DELETE, value |-> TOMBSTONE, ttl |-> -1]]
    /\ threads' = [threads EXCEPT !.put[w] = NoPut]
    /\ UNCHANGED << now, opened, sstables, files, wal, flush_queue, worker, id_gen, ops,
                    crashes, triggered, compacted, txn, column_families, directories,
                    created, shutdown, cursor >>

\* _truncate_wal: pthread_rwlock_wrlock(&wal->lock)
TruncateLockWal ==
    /\ worker.pc = "truncate"
    /\ threads.wal_lock = ""
    /\ threads' = [threads EXCEPT !.wal_lock = "flush"]
    /\ UNCHANGED engine_vars

\* _truncate_wal: pthread_rwlock_unlock(&wal->lock) after pager_truncate
TruncateUnlockWal ==
    /\ worker.pc = "wait"
    /\ threads.wal_lock = "flush"
    /\ threads' = [threads EXCEPT !.wal_lock = ""]
    /\ UNCHANGED engine_vars

(* ------------------------------ commit steps --------------------------- *)

\* tidesdb_txn_commit: pthread_rwlock_wrlock(&cf->memtable->lock)
CommitLock ==
    /\ opened
    /\ txn.status = "open"
    /\ threads.commit.pc = "idle"
    /\ threads.memtable_lock[txn.column_family] = ""
    /\ threads' = [threads EXCEPT !.memtable_lock[txn.column_family] = "commit",
                                  !.commit.pc = "apply"]
    /\ UNCHANGED engine_vars

\* tidesdb_txn_commit: one turn of the loop over the operations
CommitApply ==
    /\ threads.commit.pc = "apply"
    /\ threads.commit.applied < Len(txn.ops)
    /\ LET cf == txn.column_family
           i  == threads.commit.applied + 1
       IN  /\ memtable' = [memtable EXCEPT ![cf] = CommitOps(@, << txn.ops[i] >>, 1)]
           /\ txn' = [txn EXCEPT !.ops[i].committed = TRUE]
           /\ threads' = [threads EXCEPT !.commit.applied = i]
    /\ UNCHANGED << now, opened, sstables, files, wal, flush_queue, worker, id_gen, ops,
                    crashes, acked, triggered, compacted, column_families, directories,
                    created, shutdown, cursor >>

\* tidesdb_txn_commit after the loop: the flush trigger and the return
CommitReturn ==
    /\ threads.commit.pc = "apply"
    /\ threads.commit.applied = Len(txn.ops)
    /\ tidesdb_txn_commit

\* tidesdb_get of another thread on column family cf: skiplist_get on the
\* memtable; the engine takes no lock before it
OtherGet(cf) ==
    /\ opened
    /\ threads' = [threads EXCEPT !.commit.others = @ + 1]
    /\ UNCHANGED engine_vars

\* tidesdb_put of another thread on column family cf: the engine takes no
\* lock before skiplist_put
OtherPut(cf, key, value) == tidesdb_put(cf, key, value, -1)

(* ------------------------------ cursor --------------------------------- *)

\* skiplist_cursor_init: on the first node, 0 when the list is empty
SkiplistCursorInit(list) == IF DOMAIN list = {} THEN 0 ELSE 1

\* skiplist_cursor_next: TRUE and one node on when there is a next node,
\* else FALSE with the cursor left where it is
SkiplistCursorNext(list, pos) == pos # 0 /\ pos < Cardinality(DOMAIN list)

\* skiplist_cursor_prev: TRUE and one node back when there is a previous node
SkiplistCursorPrev(list, pos) == pos > 1

\* the pages of an SSTable file: page 0 is the bloom filter, then the kv pages
NumPages(sst) == IF sst.header THEN 1 + Len(sst.pages) ELSE 0

\* pager_cursor_next: TRUE and one page on when there is a next page
PagerCursorNext(sst, page) == page + 1 < NumPages(sst)

\* pager_cursor_prev: TRUE and one page back when there is a previous page
PagerCursorPrev(sst, page) == page > 0

\* where the cursor stands
CursorPosition(c) == << c.memtable_cursor, c.sstable_index, c.page_number >>

\* cf->sstables[sstable_index] for an index that is not in the array: what
\* the read of that memory can do to the call
OutOfRangeOutcomes == {"crashed", "failed"}

\* tidesdb_cursor_init(tdb, cf, &cursor)
tidesdb_cursor_init(cf) ==
    /\ opened
    /\ cursor.status = "none"
    /\ LET index == Len(sstables[cf]) - 1
           init  == [NoCursor EXCEPT !.cf = cf,
                                     !.memtable_cursor = SkiplistCursorInit(memtable[cf]),
                                     !.sstable_index = index]
       IN  IF index < 0
           THEN \E outcome \in OutOfRangeOutcomes :
                   cursor' = [init EXCEPT !.status = outcome, !.out_of_range = TRUE,
                                          !.code = ERR_CURSOR_INIT]
           ELSE cursor' = [init EXCEPT !.status = "open"]
    /\ UNCHANGED engine_vars_but_cursor

\* tidesdb_cursor_next(cursor)
tidesdb_cursor_next ==
    /\ opened
    /\ cursor.status = "open"
    /\ cursor.steps < MaxCursorSteps
    /\ LET list  == memtable[cursor.cf]
           ssts  == sstables[cursor.cf]
           c     == [cursor EXCEPT !.steps = @ + 1, !.before = CursorPosition(cursor),
                                   !.round_trip = << >>]
       IN  IF cursor.memtable_cursor = 0
           THEN cursor' = [c EXCEPT !.code = ERR_NONE]
           ELSE IF SkiplistCursorNext(list, cursor.memtable_cursor)
           THEN cursor' = [c EXCEPT !.memtable_cursor = @ + 1, !.code = ERR_NONE]
           ELSE IF PagerCursorNext(ssts[cursor.sstable_index + 1], cursor.page_number)
           THEN cursor' = [c EXCEPT !.page_number = @ + 1, !.exhausted = TRUE,
                                    !.code = ERR_NONE]
           ELSE IF cursor.sstable_index - 1 >= Len(ssts)
           THEN cursor' = [c EXCEPT !.sstable_index = @ - 1, !.exhausted = TRUE,
                                    !.code = ERR_AT_END]
           ELSE IF cursor.sstable_index - 1 < 0
           THEN \E outcome \in OutOfRangeOutcomes :
                   cursor' = [c EXCEPT !.sstable_index = @ - 1, !.exhausted = TRUE,
                                       !.status = outcome, !.out_of_range = TRUE,
                                       !.code = ERR_CURSOR_INIT]
           ELSE cursor' = [c EXCEPT !.sstable_index = @ - 1, !.page_number = 0,
                                    !.exhausted = TRUE, !.code = ERR_NONE]
    /\ UNCHANGED engine_vars_but_cursor

\* tidesdb_cursor_prev(cursor): sstable_cursor is never NULL on an open
\* cursor; the read lock taken on cf->sstables_lock is not released
tidesdb_cursor_prev ==
    /\ opened
    /\ cursor.status = "open"
    /\ cursor.steps < MaxCursorSteps
    /\ LET list  == memtable[cursor.cf]
           ssts  == sstables[cursor.cf]
           c     == [cursor EXCEPT !.steps = @ + 1, !.before = << >>]
           done(d) == [d EXCEPT !.round_trip =
                          IF cursor.before = << >> \/ cursor.code # ERR_NONE THEN << >>
                          ELSE << cursor.before, CursorPosition(d) >>]
       IN  IF PagerCursorPrev(ssts[cursor.sstable_index + 1], cursor.page_number)
           THEN cursor' = done([c EXCEPT !.page_number = @ - 1, !.code = ERR_NONE])
           ELSE IF cursor.sstable_index = Len(ssts) - 1
           THEN IF SkiplistCursorPrev(list, cursor.memtable_cursor)
                THEN cursor' = done([c EXCEPT !.rdlocks = @ + 1,
                                              !.memtable_cursor = @ - 1,
                                              !.code = ERR_NONE])
                ELSE cursor' = done([c EXCEPT !.rdlocks = @ + 1, !.code = ERR_AT_START])
           ELSE cursor' = done([c EXCEPT !.rdlocks = @ + 1, !.sstable_index = @ + 1,
                                         !.page_number = 0, !.code = ERR_NONE])
    /\ UNCHANGED engine_vars_but_cursor

\* tidesdb_cursor_get(cursor, &kv): the memtable node while the memtable
\* cursor has one, else the page the SSTable cursor is on
tidesdb_cursor_get(c) ==
    LET list == memtable[c.cf]
        sst  == sstables[c.cf][c.sstable_index + 1]
    IN  IF c.memtable_cursor # 0
        THEN LET key == SortedSeq(DOMAIN list)[c.memtable_cursor]
             IN  [code |-> ERR_NONE, key |-> key, value |-> list[key].value]
        ELSE IF c.page_number = 0 \/ c.page_number >= NumPages(sst)
        THEN [code |-> ERR_CURSOR_GET, key |-> 0, value |-> TOMBSTONE]
        ELSE LET kv == sst.pages[c.page_number]
             IN  IF IsTombstone(kv.value)
                 THEN [code |-> ERR_TOMBSTONED, key |-> 0, value |-> TOMBSTONE]
                 ELSE IF Expired(kv.ttl, now)
                 THEN [code |-> ERR_EXPIRED, key |-> 0, value |-> TOMBSTONE]
                 ELSE [code |-> ERR_NONE, key |-> kv.key, value |-> kv.value]

(* ------------------------------ specification -------------------------- *)

\* a database just opened on an empty directory in which the column
\* families have been created
Init ==
    /\ now = 0
    /\ opened = TRUE
    /\ memtable = [cf \in ColumnFamilies |-> EmptySkiplist]
    /\ sstables = [cf \in ColumnFamilies |-> << >>]
    /\ files = [cf \in ColumnFamilies |-> {}]
    /\ wal = << >>
    /\ flush_queue = << >>
    /\ worker = [pc |-> "wait", qe |-> NoQueueEntry]
    /\ id_gen = 0
    /\ ops = 0
    /\ crashes = 0
    /\ acked = [cf \in ColumnFamilies |-> [k \in Keys |-> NoAck]]
    /\ triggered = [cf \in ColumnFamilies |-> FALSE]
    /\ compacted = NoCompaction
    /\ txn = NoTxn
    /\ column_families = << "cf1", "cf2" >>
    /\ directories = ColumnFamilies
    /\ created = NoCreate
    /\ shutdown = NoShutdown
    /\ threads = NoThreads
    /\ cursor = NoCursor

\* the calls of a client that also uses expiry times, the flush thread,
\* one kill of the process and the clock
Next ==
    \/ \E cf \in ColumnFamilies, key \in Keys, value \in Values, ttl \in TTLs :
          ops < MaxOps /\ tidesdb_put(cf, key, value, ttl)
    \/ \E cf \in ColumnFamilies, key \in Keys :
          ops < MaxOps /\ tidesdb_delete(cf, key)
    \/ FlushDequeue
    \/ FlushMemtable
    \/ FlushFail
    \/ TruncateWal
    \/ crashes < MaxCrashes /\ Crash
    \/ tidesdb_open
    \/ Tick

Spec == Init /\ [][Next]_vars

\* the calls of a client that writes without expiry and compacts once, and
\* the flush thread; the process is not killed
NextLsm ==
    \/ \E cf \in ColumnFamilies, key \in Keys, value \in Values :
          ops < MaxLsmOps /\ tidesdb_put(cf, key, value, -1)
    \/ \E cf \in ColumnFamilies, key \in Keys :
          ops < MaxLsmOps /\ tidesdb_delete(cf, key)
    \/ FlushDequeue
    \/ FlushMemtable
    \/ TruncateWal
    \/ \E cf \in ColumnFamilies, max_threads \in 1..MaxThreads :
          compacted = NoCompaction /\ tidesdb_compact_sstables(cf, max_threads)

SpecLsm == Init /\ [][NextLsm]_vars

\* a client that writes a few records, then runs one transaction, and the
\* flush thread
NextTxn ==
    \/ \E cf \in ColumnFamilies, key \in Keys, value \in Values :
          txn.status = "none" /\ ops < MaxSetupOps /\ tidesdb_put(cf, key, value, -1)
    \/ FlushDequeue
    \/ FlushMemtable
    \/ TruncateWal
    \/ \E cf \in ColumnFamilies : tidesdb_txn_begin(cf)
    \/ \E key \in Keys, value \in Values :
          Len(txn.ops) < MaxTxnOps /\ tidesdb_txn_put(key, value, -1)
    \/ \E key \in Keys : Len(txn.ops) < MaxTxnOps /\ tidesdb_txn_delete(key)
    \/ tidesdb_txn_commit
    \/ tidesdb_txn_rollback

SpecTxn == Init /\ [][NextTxn]_vars

\* a client that commits a transaction, after which the process is killed
\* and the database opened again; nothing is flushed
NextDurable ==
    \/ \E cf \in ColumnFamilies : tidesdb_txn_begin(cf)
    \/ \E key \in Keys, value \in Values :
          Len(txn.ops) < MaxTxnOps /\ tidesdb_txn_put(key, value, -1)
    \/ \E key \in Keys : Len(txn.ops) < MaxTxnOps /\ tidesdb_txn_delete(key)
    \/ tidesdb_txn_commit
    \/ txn.status = "committed" /\ crashes < MaxCrashes /\ Crash
    \/ tidesdb_open

SpecDurable == Init /\ [][NextDurable]_vars

\* the column family catalog: create, drop, close and reopen
NextCatalog ==
    \/ \E name \in ColumnFamilies : tidesdb_create_column_family(name)
    \/ \E name \in ColumnFamilies : tidesdb_drop_column_family(name)
    \/ crashes < MaxCatalogCloses /\ Crash
    \/ tidesdb_open

SpecCatalog == Init /\ [][NextCatalog]_vars

\* a client that writes, then closes the database and opens it again, and
\* the flush thread
FlushThreadStep ==
    \/ FlushDequeue
    \/ FlushMemtable
    \/ TruncateWal
    \/ FlushThreadExit
    \/ FlushUseAfterFree

CloseStep ==
    \/ CloseFreeColumnFamilies
    \/ CloseStop
    \/ CloseSignal
    \/ CloseReturn

NextClose ==
    \/ \E cf \in ColumnFamilies, key \in Keys, value \in Values :
          shutdown.pc = "none" /\ ops < MaxCloseOps /\ tidesdb_put(cf, key, value, -1)
    \/ FlushThreadStep
    \/ CloseStep
    \/ tidesdb_open

SpecClose == Init /\ [][NextClose]_vars

\* the scheduler lets the flush thread and the closing thread run
SpecCloseFair ==
    SpecClose /\ WF_vars(FlushThreadStep) /\ WF_vars(CloseStep)

\* a reading thread, a compacting thread and the flush thread, each at the
\* lock and unlock calls of its code
NextThreads ==
    \/ \E cf \in ColumnFamilies : GetBegin(cf)
    \/ GetLockFlush
    \/ GetUnlockFlush
    \/ \E cf \in ColumnFamilies : CompactLockSstables(cf)
    \/ CompactMerge
    \/ CompactUnlockSstables
    \/ FlushLockQueue
    \/ \E cf \in ColumnFamilies : FlushUnlockQueue(cf)
    \/ FlushLockSstables
    \/ FlushPublish
    \/ FlushUnlockSstables

SpecThreads == Init /\ [][NextThreads]_vars

\* a client that writes, and the flush thread with every way a flush can
\* fail
NextFlush ==
    \/ \E cf \in ColumnFamilies, key \in Keys, value \in Values :
          ops < MaxLsmOps /\ tidesdb_put(cf, key, value, -1)
    \/ FlushDequeue
    \/ FlushMemtable
    \/ FlushSkipPages
    \/ FlushFail
    \/ TruncateWal

SpecFlush == Init /\ [][NextFlush]_vars

\* a client that fills one column family, lets the flush thread run, then
\* opens a cursor on it and walks it
NextCursor ==
    \/ \E key \in Keys, value \in Values :
          /\ cursor.status = "none"
          /\ ops < MaxCursorOps
          /\ tidesdb_put("cf1", key, value, -1)
    \/ cursor.status = "none" /\ FlushDequeue
    \/ cursor.status = "none" /\ FlushMemtable
    \/ cursor.status = "none" /\ TruncateWal
    \/ worker.pc = "wait" /\ flush_queue = << >> /\ tidesdb_cursor_init("cf1")
    \/ tidesdb_cursor_next
    \/ tidesdb_cursor_prev

SpecCursor == Init /\ [][NextCursor]_vars

\* two threads that put to one column family at the same time, each at the
\* steps of tidesdb_put, and the flush thread at the steps of _truncate_wal
NextWriters ==
    \/ \E w \in Writers, value \in Values :
          ops < MaxWriterOps /\ PutAppendBegin(w, WriterKey(w), value)
    \/ \E w \in Writers, name \in ColumnFamilies \cup {UnknownColumnFamily} :
          ops < MaxWriterOps /\ WriteColumnFamilyNotFound(w, name)
    \/ \E w \in Writers : ops < MaxWriterOps /\ DeleteAppendBegin(w, WriterKey(w))
    \/ \E w \in Writers : PutAppendFail(w)
    \/ \E w \in Writers : DeleteAppendFail(w)
    \/ \E w \in Writers : DeleteAppendEnd(w)
    \/ \E w \in Writers : DeleteMemtable(w)
    \/ \E w \in Writers : PutAppendEnd(w)
    \/ \E w \in Writers : PutMemtable(w)
    \/ \E w \in Writers : PutLockFlush(w)
    \/ \E w \in Writers : PutSnapshot(w)
    \/ \E w \in Writers : PutClear(w)
    \/ threads.flush_lock = "" /\ threads.wal_lock = "" /\ FlushDequeue
    \/ FlushMemtable
    \/ TruncateLockWal
    \/ threads.wal_lock = "flush" /\ TruncateWal
    \/ TruncateUnlockWal

SpecWriters == Init /\ [][NextWriters]_vars

\* a client that writes to the column families it has, drops column
\* families, and is killed and opened again: the WAL then holds pages of a
\* column family that is not loaded
NextReplay ==
    \/ \E cf \in CatalogNames(column_families), key \in Keys, value \in Values :
          ops < MaxReplayOps /\ tidesdb_put(cf, key, value, -1)
    \/ \E cf \in CatalogNames(column_families), key \in Keys :
          ops < MaxReplayOps /\ tidesdb_delete(cf, key)
    \/ \E name \in ColumnFamilies : tidesdb_drop_column_family(name)
    \/ crashes < MaxCrashes /\ Crash
    \/ tidesdb_open

SpecReplay == Init /\ [][NextReplay]_vars

\* the column family has an entry in the flush queue or in the flush thread
Queued(name) ==
    \/ \E i \in DOMAIN flush_queue : flush_queue[i].cf = name
    \/ worker.qe.cf = name

\* a client that writes, and creates and drops column families, while the
\* flush thread works through the queue; a column family with a queued
\* entry is not dropped, and no name is created twice
NextPointer ==
    \/ \E cf \in CatalogNames(column_families), key \in Keys, value \in Values :
          ops < MaxPointerOps /\ tidesdb_put(cf, key, value, -1)
    \/ \E name \in ColumnFamilies :
          ~Queued(name) /\ FirstIndex(column_families, name) # 0
              /\ tidesdb_drop_column_family(name)
    \/ \E name \in ColumnFamilies :
          FirstIndex(column_families, name) = 0 /\ tidesdb_create_column_family(name)
    \/ FlushDequeue
    \/ FlushMemtable
    \/ FlushStalePointer
    \/ TruncateWal

SpecPointer == Init /\ [][NextPointer]_vars

\* a thread that commits one transaction on a column family, at the steps
\* of tidesdb_txn_commit, and another thread that gets and puts there
NextCommit ==
    \/ tidesdb_txn_begin(WriterColumnFamily)
    \/ \E key \in Keys, value \in Values :
          Len(txn.ops) < MaxTxnOps /\ tidesdb_txn_put(key, value, -1)
    \/ \E key \in Keys : Len(txn.ops) < MaxTxnOps /\ tidesdb_txn_delete(key)
    \/ CommitLock
    \/ CommitApply
    \/ CommitReturn
    \/ threads.commit.others < MaxOtherOps /\ OtherGet(WriterColumnFamily)
    \/ \E key \in Keys, value \in Values :
          ops < MaxOtherOps /\ OtherPut(WriterColumnFamily, key, value)

SpecCommit == Init /\ [][NextCommit]_vars

\* the kv pages an SSTable file can hold: keys ascending and unique, one
\* value each, every record carrying the absolute expiry time MergeTtl
SstablePages ==
    {[i \in 1..Cardinality(ks) |->
         [key |-> SortedSeq(ks)[i], value |-> v[SortedSeq(ks)[i]], ttl |-> MergeTtl]] :
       ks \in (SUBSET Keys) \ {{}}, v \in [Keys -> Values]}

\* a column family holding two SSTable files, sstable_1 written before
\* sstable_2, whose records have not expired
InitMerge ==
    /\ now = 0
    /\ opened = TRUE
    /\ memtable = [cf \in ColumnFamilies |-> EmptySkiplist]
    /\ \E pages1 \in SstablePages, pages2 \in SstablePages :
          LET sst1 == [id |-> 1, header |-> TRUE,
                       bloom |-> {pages1[i].key : i \in 1..Len(pages1)}, pages |-> pages1]
              sst2 == [id |-> 2, header |-> TRUE,
                       bloom |-> {pages2[i].key : i \in 1..Len(pages2)}, pages |-> pages2]
          IN  /\ sstables = [cf \in ColumnFamilies |->
                                IF cf = "cf1" THEN << sst1, sst2 >> ELSE << >>]
              /\ files = [cf \in ColumnFamilies |->
                             IF cf = "cf1" THEN {sst1, sst2} ELSE {}]
    /\ wal = << >>
    /\ flush_queue = << >>
    /\ worker = [pc |-> "wait", qe |-> NoQueueEntry]
    /\ id_gen = 2
    /\ ops = 0
    /\ crashes = 0
    /\ acked = [cf \in ColumnFamilies |-> [k \in Keys |-> NoAck]]
    /\ triggered = [cf \in ColumnFamilies |-> FALSE]
    /\ compacted = NoCompaction
    /\ txn = NoTxn
    /\ column_families = << "cf1", "cf2" >>
    /\ directories = ColumnFamilies
    /\ created = NoCreate
    /\ shutdown = NoShutdown
    /\ threads = NoThreads
    /\ cursor = NoCursor

\* one tidesdb_compact_sstables call on that column family
NextMerge ==
    \E max_threads \in 1..MaxThreads :
        compacted = NoCompaction /\ tidesdb_compact_sstables("cf1", max_threads)

SpecMerge == InitMerge /\ [][NextMerge]_vars

\* a column family holding n SSTable files of one unexpired record each,
\* written in the order of their ids
InitPartition ==
    /\ now = 0
    /\ opened = TRUE
    /\ memtable = [cf \in ColumnFamilies |-> EmptySkiplist]
    /\ \E n \in 2..MaxSstables, value \in Values :
          LET list == [i \in 1..n |->
                          [id |-> i, header |-> TRUE, bloom |-> {1},
                           pages |-> << [key |-> 1, value |-> value, ttl |-> MergeTtl] >>]]
          IN  /\ sstables = [cf \in ColumnFamilies |-> IF cf = "cf1" THEN list ELSE << >>]
              /\ files = [cf \in ColumnFamilies |->
                             IF cf = "cf1" THEN Elements(list) ELSE {}]
              /\ id_gen = n
    /\ wal = << >>
    /\ flush_queue = << >>
    /\ worker = [pc |-> "wait", qe |-> NoQueueEntry]
    /\ ops = 0
    /\ crashes = 0
    /\ acked = [cf \in ColumnFamilies |-> [k \in Keys |-> NoAck]]
    /\ triggered = [cf \in ColumnFamilies |-> FALSE]
    /\ compacted = NoCompaction
    /\ txn = NoTxn
    /\ column_families = << "cf1", "cf2" >>
    /\ directories = ColumnFamilies
    /\ created = NoCreate
    /\ shutdown = NoShutdown
    /\ threads = NoThreads
    /\ cursor = NoCursor

\* one tidesdb_compact_sstables call on that column family, with few or
\* many threads
NextPartition ==
    \E max_threads \in 1..MaxPartitionThreads :
        compacted = NoCompaction /\ tidesdb_compact_sstables("cf1", max_threads)

SpecPartition == InitPartition /\ [][NextPartition]_vars

(* ------------------------------ properties ----------------------------- *)

\* the answer of a successful get
Found(value) == [code |-> ERR_NONE, value |-> value]

\* the process has run without interruption since the database was created
NeverCrashed == crashes = 0

\* no put has crossed a flush threshold yet
NoFlushYet == \A cf \in ColumnFamilies : ~triggered[cf]

\* C1: read-your-writes - while the process runs, a get of a key whose last
\* acknowledged mutation is a put of V with ttl -1 returns V, whatever the
\* state of the flush pipeline.
C1_ReadYourWrites ==
    (opened /\ NeverCrashed) =>
        \A cf \in ColumnFamilies, k \in Keys :
            (acked[cf][k].op = OP_PUT /\ acked[cf][k].ttl = -1)
                => tidesdb_get(cf, k) = Found(acked[cf][k].value)

\* the last WAL page about key k of column family cf records mutation a
InWal(cf, k, a) ==
    \E i \in 1..Len(wal) :
        /\ wal[i].column_family = cf /\ wal[i].key = k
        /\ \A j \in (i + 1)..Len(wal) : ~(wal[j].column_family = cf /\ wal[j].key = k)
        /\ wal[i].op_code = a.op
        /\ wal[i].value = a.value
        /\ a.op = OP_PUT => wal[i].ttl = a.ttl

\* some .sst file of cf holds a page with key k and the value of mutation a
InPublishedSstable(cf, k, a) ==
    \E f \in files[cf] : \E i \in 1..Len(f.pages) :
        f.pages[i].key = k /\ f.pages[i].value = a.value

\* C2: durability across flush - in every state the last acknowledged
\* mutation of every key is in the WAL or in a published SSTable.
C2_Durability ==
    \A cf \in ColumnFamilies, k \in Keys :
        acked[cf][k].op # "none"
            => InWal(cf, k, acked[cf][k]) \/ InPublishedSstable(cf, k, acked[cf][k])

\* C3: a get of a key whose last acknowledged mutation is a delete returns
\* KeyNotFound, wherever an earlier value of the key lives.
C3_DeleteHides ==
    opened =>
        \A cf \in ColumnFamilies, k \in Keys :
            acked[cf][k].op = OP_DELETE => KeyNotFound(tidesdb_get(cf, k))

\* the state C3 is about: a key deleted after its value reached an SSTable
C3_Case ==
    \E cf \in ColumnFamilies, k \in Keys :
        /\ acked[cf][k].op = OP_DELETE
        /\ \E i \in 1..Len(sstables[cf]) : k \in sstables[cf][i].bloom

\* the memtable entry the last acknowledged mutation of a key leaves
ExpectedEntry(a) ==
    IF a.op = OP_PUT THEN [value |-> a.value, ttl |-> a.ttl]
    ELSE [value |-> TOMBSTONE, ttl |-> -1]

\* the memtable that applying the acknowledged operations in order yields
ExpectedMemtable(cf) ==
    [k \in {x \in Keys : acked[cf][x].op # "none"} |-> ExpectedEntry(acked[cf][k])]

\* what a get must answer for a key whose last acknowledged mutation is a
\* and whose record has not left the memtable: the value of a put that has
\* not expired, KeyNotFound otherwise
MemtableAnswer(a, r) ==
    IF a.op = OP_PUT /\ ~Expired(a.ttl, now)
    THEN r = Found(a.value)
    ELSE KeyNotFound(r)

\* C4: WAL replay round trip - when no flush was ever triggered, a crash
\* followed by tidesdb_open leaves memtables equal to applying the
\* acknowledged puts and deletes in order, and get answers from them.
C4_ReplayRoundTrip ==
    (opened /\ crashes > 0 /\ NoFlushYet) =>
        \A cf \in ColumnFamilies :
            /\ memtable[cf] = ExpectedMemtable(cf)
            /\ \A k \in Keys : MemtableAnswer(acked[cf][k], tidesdb_get(cf, k))

\* a reopened database whose WAL held a put and a delete
C4_Witness ==
    /\ opened /\ crashes > 0 /\ NoFlushYet
    /\ Len(wal) >= 2
    /\ \E cf \in ColumnFamilies, k \in Keys : acked[cf][k].op = OP_DELETE
    /\ \E cf \in ColumnFamilies, k \in Keys :
          acked[cf][k].op = OP_PUT /\ tidesdb_get(cf, k) = Found(acked[cf][k].value)

Holders(list, k) ==
    {i \in 1..Len(list) : \E p \in 1..Len(list[i].pages) : list[i].pages[p].key = k}

\* the position of the SSTable produced last among those holding k
Newest(list, k) ==
    CHOOSE i \in Holders(list, k) : \A j \in Holders(list, k) : list[j].id <= list[i].id

\* C6: newest-wins read - get answers from the memtable when it holds the
\* key, otherwise with the verdict of the newest SSTable that contains the
\* key.
C6_NewestWins ==
    opened =>
        \A cf \in ColumnFamilies, k \in Keys :
            LET r == tidesdb_get(cf, k)
                m == SkiplistGet(memtable[cf], k, now)
            IN  IF m.found
                THEN r = (IF IsTombstone(m.value)
                          THEN [code |-> ERR_KEY_NOT_FOUND, value |-> TOMBSTONE]
                          ELSE Found(m.value))
                ELSE Holders(sstables[cf], k) # {} =>
                        LET v == ScanPages(sstables[cf][Newest(sstables[cf], k)].pages,
                                           1, k, now)
                        IN  r = [code |-> v.code, value |-> v.value]

\* C7: TTL expiry - a record put with an absolute ttl T is KeyNotFound at
\* every time now > T, in the memtable or in an SSTable.
C7_TtlExpiry ==
    opened =>
        \A cf \in ColumnFamilies, k \in Keys :
            (acked[cf][k].op = OP_PUT /\ acked[cf][k].ttl # -1 /\ now > acked[cf][k].ttl)
                => KeyNotFound(tidesdb_get(cf, k))

\* the (key, value) pairs of the live records of the SSTables of a list
LiveRecords(list, t) ==
    UNION {{[key |-> list[i].pages[p].key, value |-> list[i].pages[p].value] :
               p \in {q \in 1..Len(list[i].pages) :
                         /\ ~IsTombstone(list[i].pages[q].value)
                         /\ ~Expired(list[i].pages[q].ttl, t)}} :
           i \in 1..Len(list)}

\* the (key, value) pairs of all the records of the SSTables of a list
Records(list) ==
    UNION {{[key |-> list[i].pages[p].key, value |-> list[i].pages[p].value] :
               p \in 1..Len(list[i].pages)} :
           i \in 1..Len(list)}

\* C8: compaction preserves live data - after tidesdb_compact_sstables every
\* record that was live in an input SSTable is present under its key in
\* some SSTable of the column family's list.
C8_CompactionPreservesLive ==
    compacted # NoCompaction =>
        LiveRecords(compacted.before, now) \subseteq Records(compacted.after)

\* a compaction whose threads attempted a pair merge on SSTables that hold
\* live records
C8_Witness ==
    /\ compacted # NoCompaction
    /\ PairStarts(Len(compacted.before), compacted.max_threads) # {}
    /\ \A i \in 1..Len(compacted.before) :
          LiveRecords(<< compacted.before[i] >>, now) # {}

\* the value an SSTable holds for key k
ValueIn(sst, k) ==
    LET p == CHOOSE q \in 1..Len(sst.pages) : sst.pages[q].key = k
    IN  sst.pages[p].value

CeilHalf(n) == (n + 1) \div 2

\* C10: compaction count - after a tidesdb_compact_sstables on N >= 2
\* SSTables in which every pair merge succeeds, the column family holds at
\* most ceil(N/2) SSTables.
C10_CompactionCount ==
    (/\ compacted # NoCompaction
     /\ compacted.merged = PairStarts(Len(compacted.before), compacted.max_threads))
        => Len(compacted.after) <= CeilHalf(Len(compacted.before))

\* an SSTable holds a tombstone record
HoldsTombstone(sst) ==
    \E p \in 1..Len(sst.pages) : IsTombstone(sst.pages[p].value)

\* C11: compaction removes tombstones - no SSTable a compaction produced
\* holds a tombstone record, and a key whose newest record was a tombstone
\* when the compaction ran (and is not written again) is KeyNotFound after.
C11_CompactionTombstones ==
    (opened /\ compacted # NoCompaction) =>
        /\ \A j \in compacted.merged : ~HoldsTombstone(compacted.slots[j + 1])
        /\ \A k \in compacted.deleted :
              acked[compacted.cf][k].op = OP_DELETE
                  => KeyNotFound(tidesdb_get(compacted.cf, k))

\* C12: transaction commit effect - after tidesdb_txn_commit every key the
\* transaction touched reads as its last operation on the key says: the
\* put value, or KeyNotFound after a delete.
C12_CommitEffect ==
    (opened /\ txn.status = "committed") =>
        \A k \in Touched(txn.ops) :
            LET o == LastOp(txn.ops, k)
                r == tidesdb_get(txn.column_family, k)
            IN  IF o.op_code = OP_PUT THEN r = Found(o.value) ELSE KeyNotFound(r)

\* C13: rollback undoes a commit - after tidesdb_txn_commit and then
\* tidesdb_txn_rollback every key the transaction touched reads as it did
\* before the commit.
C13_RollbackUndoesCommit ==
    (opened /\ txn.status = "rolled back") =>
        \A k \in Touched(txn.ops) :
            tidesdb_get(txn.column_family, k) = txn.before[k]

\* C14: no two entries of the catalog carry the same name, and a
\* tidesdb_create_column_family call naming a column family that already
\* exists is refused
C14_NameUniqueness ==
    /\ \A i, j \in DOMAIN column_families :
          column_families[i] = column_families[j] => i = j
    /\ created.existed => created.code # ERR_NONE

\* C15: the tidesdb_open step leaves in each column family's SSTable list
\* every .sst file of its directory
C15_ReopenLoadsAll ==
    [][(~opened /\ opened') =>
          \A cf \in ColumnFamilies : files[cf] \subseteq Elements(sstables'[cf])]_vars

\* C18: once tidesdb_close has set stop_flush_thread and signalled
\* flush_cond, close eventually returns, and when it has returned the flush
\* queue is empty
C18_ShutdownTerminates ==
    /\ (shutdown.pc = "signalled") ~> (shutdown.pc = "returned")
    /\ [](shutdown.pc = "returned" => flush_queue = << >>)

\* the modification times of two files compare as their sstable_<id> numbers
\* do: a file is written once, when it is created, and ids are handed out in
\* creation order
OlderFile(sst1, sst2) == sst1.id < sst2.id

\* C16: every column family's SSTable list is ordered by file modification
\* time ascending, the newest file last (flush publish and compaction are
\* single steps here, so every state is outside their critical sections)
C16_ListOrdered ==
    \A cf \in ColumnFamilies :
        \A i, j \in DOMAIN sstables[cf] :
            i < j => OlderFile(sstables[cf][i], sstables[cf][j])

\* C17: while tidesdb_get scans a column family's SSTable list, no
\* compaction and no flush publish is mutating that list
C17_ScanExcludesMutation ==
    threads.get.pc = "scan" =>
        /\ ~(threads.compact.pc \in {"sort", "merge"} /\ threads.compact.cf = threads.get.cf)
        /\ ~(threads.flush.pc = "publish" /\ threads.flush.cf = threads.get.cf)

\* the flush of the worker's entry has published its SSTable although the
\* write of a kv page failed: a key of the bloom filter has no page
KvPageWriteFailed ==
    /\ worker.pc = "truncate"
    /\ LET list == sstables[worker.qe.cf]
           sst  == list[Len(list)]
       IN  sst.bloom # {sst.pages[i].key : i \in DOMAIN sst.pages}

\* C19: when a step of the flush of a queue entry has failed, the WAL is not
\* truncated for that entry
C19_FlushFailureKeepsWal ==
    [][KvPageWriteFailed => Len(wal') >= Len(wal)]_vars

\* the step in which the flush worker returns from _truncate_wal
TruncateStep == opened /\ opened' /\ worker.pc = "truncate" /\ worker'.pc = "wait"

\* an SSTable of the entry's column family was written from the entry's
\* snapshot
EntryPublished(qe) ==
    \E n \in DOMAIN sstables[qe.cf] :
        LET sst == sstables[qe.cf][n]
        IN  /\ sst.bloom # {}
            /\ sst.bloom \subseteq DOMAIN qe.memtable
            /\ \A i \in DOMAIN sst.pages :
                  /\ sst.pages[i].key \in DOMAIN qe.memtable
                  /\ sst.pages[i].value = qe.memtable[sst.pages[i].key].value

\* C20: the WAL gets shorter only in the flush worker's truncate step; that
\* step comes after the entry's SSTable has been appended to its column
\* family's list and leaves at most the entry's checkpoint of pages, a
\* prefix of the WAL
C20_TruncateStepOnly ==
    [][/\ Len(wal') < Len(wal) => TruncateStep
       /\ TruncateStep =>
             /\ EntryPublished(worker.qe)
             /\ Len(wal') <= worker.qe.wal_checkpoint
             /\ wal' = SubSeq(wal, 1, Len(wal'))]_vars

\* a truncate has cut pages off the WAL: fewer pages than acknowledged
\* operations, with the worker back at the top of its loop
C20_Witness ==
    /\ Len(wal) < ops
    /\ worker.pc = "wait"
    /\ \E cf \in ColumnFamilies : sstables[cf] # << >>

\* the record the cursor has reached: while it is in the memtable the node
\* it stands on, afterwards the kv page of the SSTable it stands on
CursorRecord(c) ==
    IF ~c.exhausted
    THEN LET key == SortedSeq(DOMAIN memtable[c.cf])[c.memtable_cursor]
         IN  << key, memtable[c.cf][key].value >>
    ELSE LET kv == sstables[c.cf][c.sstable_index + 1].pages[c.page_number]
         IN  << kv.key, kv.value >>

\* C21: a cursor never indexes the SSTable list outside [0, num_sstables-1],
\* and once tidesdb_cursor_next has moved it onto a kv page of an SSTable,
\* tidesdb_cursor_get returns that page's record
C21_CursorForward ==
    /\ ~cursor.out_of_range
    /\ (cursor.status = "open" /\ cursor.exhausted /\ cursor.page_number >= 1)
          => LET r == tidesdb_cursor_get(cursor)
             IN  r.code = ERR_NONE /\ << r.key, r.value >> = CursorRecord(cursor)

\* C22: a tidesdb_cursor_prev that follows a successful tidesdb_cursor_next
\* brings the cursor back to where it stood before the next
C22_PrevInvertsNext ==
    cursor.round_trip # << >> => cursor.round_trip[1] = cursor.round_trip[2]

\* C26: when tidesdb_cursor_prev has returned, the calling thread holds no
\* read lock on cf->sstables_lock
C26_PrevReleasesLock == cursor.rdlocks = 0

\* C23: tidesdb_get reports one error code, 1031 "Key not found", for a key
\* that is absent, a key whose newest record is a tombstone and a key whose
\* newest record has expired, from the memtable or from an SSTable.
C23_OneNotFoundCode ==
    opened =>
        \A cf \in ColumnFamilies : \A k \in Keys :
            LET a == acked[cf][k]
            IN  (a.op = "none" \/ a.op = OP_DELETE \/ (a.op = OP_PUT /\ Expired(a.ttl, now)))
                    => tidesdb_get(cf, k).code = ERR_KEY_NOT_FOUND

\* the record (key, value) is in the memtable of cf, in a snapshot that waits
\* in the flush queue or is being flushed, or in a page of a published SSTable
Recorded(cf, key, value) ==
    \/ key \in DOMAIN memtable[cf] /\ memtable[cf][key].value = value
    \/ \E i \in 1..Len(flush_queue) :
          /\ flush_queue[i].cf = cf
          /\ key \in DOMAIN flush_queue[i].memtable
          /\ flush_queue[i].memtable[key].value = value
    \/ /\ worker.pc = "flush"
       /\ worker.qe.cf = cf
       /\ key \in DOMAIN worker.qe.memtable
       /\ worker.qe.memtable[key].value = value
    \/ \E i \in 1..Len(sstables[cf]) : \E p \in 1..Len(sstables[cf][i].pages) :
          /\ sstables[cf][i].pages[p].key = key
          /\ sstables[cf][i].pages[p].value = value

\* some writer thread is inside a tidesdb_put of key
InFlight(key) == \E w \in Writers : threads.put[w].pc # "idle" /\ threads.put[w].key = key

\* C24: no write is lost around a flush trigger - between the snapshot copy
\* and the clear of a flush-triggering writer the memtable is the snapshot,
\* and the record of every acknowledged put that is not being overwritten is
\* in the memtable, in a queued snapshot or in a published SSTable.
C24_NoWriteLost ==
    /\ \A w \in Writers :
          threads.put[w].pc = "copied"
              => memtable[WriterColumnFamily] = threads.put[w].snapshot
    /\ \A k \in Keys :
          (acked[WriterColumnFamily][k].op = OP_PUT /\ ~InFlight(k))
              => Recorded(WriterColumnFamily, k, acked[WriterColumnFamily][k].value)

\* C25: when tidesdb_txn_commit has returned, the write lock of the column
\* family's memtable is free.
C25_CommitReleasesLock ==
    txn.status = "committed" => threads.memtable_lock[txn.column_family] = ""

\* some but not all operations of the transaction are in the memtable
PartiallyApplied ==
    /\ threads.commit.pc = "apply"
    /\ threads.commit.applied > 0
    /\ threads.commit.applied < Len(txn.ops)

\* C27: while a transaction is partially applied to the memtable, no other
\* thread's tidesdb_get or tidesdb_put on that column family takes a step.
C27_CommitAtomic ==
    [][PartiallyApplied =>
          /\ threads'.commit.others = threads.commit.others
          /\ ops' = ops]_vars

\* C28: no page write of _append_to_wal is in progress while the flush
\* thread holds wal->lock in _truncate_wal.
C28_AppendExcludesTruncate ==
    ~(threads.wal_lock = "flush" /\ \E w \in Writers : threads.put[w].pc = "wal_write")

\* C29: the flush thread takes the queue entries in the order they were
\* enqueued, one at a time, and the SSTable of an entry is appended at the
\* end of its column family's list - so of two snapshots of a column family
\* the one enqueued first gets the lower index.
C29_FifoFlush ==
    [][(opened /\ opened') =>
          /\ Len(flush_queue') > Len(flush_queue)
                => /\ Len(flush_queue') = Len(flush_queue) + 1
                   /\ SubSeq(flush_queue', 1, Len(flush_queue)) = flush_queue
          /\ worker'.pc = "flush"
                => \/ worker' = worker
                   \/ /\ worker.pc = "wait"
                      /\ flush_queue # << >>
                      /\ worker'.qe = Head(flush_queue)
                      /\ flush_queue' = Tail(flush_queue)
          /\ \A cf \in ColumnFamilies :
                Len(sstables'[cf]) > Len(sstables[cf])
                    => /\ worker.pc = "flush"
                       /\ worker.qe.cf = cf
                       /\ Len(sstables'[cf]) = Len(sstables[cf]) + 1
                       /\ SubSeq(sstables'[cf], 1, Len(sstables[cf])) = sstables[cf]
                       /\ sstables'[cf][Len(sstables'[cf])].bloom
                              \subseteq DOMAIN worker.qe.memtable]_vars

\* the first snapshot of a column family has been written and published and
\* the flush thread holds the second, which carries another value of a key
C29_Witness ==
    \E cf \in ColumnFamilies :
        /\ Len(sstables[cf]) = 1
        /\ worker.pc = "flush"
        /\ worker.qe.cf = cf
        /\ flush_queue = << >>
        /\ sstables[cf][1].bloom \subseteq DOMAIN worker.qe.memtable
        /\ \E k \in sstables[cf][1].bloom :
              \E p \in 1..Len(sstables[cf][1].pages) :
                 /\ sstables[cf][1].pages[p].key = k
                 /\ sstables[cf][1].pages[p].value # worker.qe.memtable[k].value

\* the keys in the kv pages of an SSTable
PageKeys(sst) == {sst.pages[p].key : p \in 1..Len(sst.pages)}

\* C30: every key stored in a kv page of an SSTable, in a column family's
\* list or on disk, is in the bloom filter of that SSTable's page 0, so the
\* scan of tidesdb_get does not pass over an SSTable that holds the key.
C30_BloomCoverage ==
    \A cf \in ColumnFamilies :
        /\ \A i \in 1..Len(sstables[cf]) : PageKeys(sstables[cf][i]) \subseteq sstables[cf][i].bloom
        /\ \A f \in files[cf] : PageKeys(f) \subseteq f.bloom

\* a flushed SSTable with two kv pages is in a list and tidesdb_get answers
\* a key from its second page
C30_Witness ==
    \E cf \in ColumnFamilies : \E i \in 1..Len(sstables[cf]) :
        /\ Len(sstables[cf][i].pages) = 2
        /\ memtable[cf] = EmptySkiplist
        /\ LET kv == sstables[cf][i].pages[2]
           IN  /\ kv.key \in sstables[cf][i].bloom
               /\ tidesdb_get(cf, kv.key).code = ERR_NONE

\* C31: the sort of tidesdb_compact_sstables leaves the SSTables by file
\* modification time ascending, and _compare_sstables is negative for an
\* older first argument and positive for a newer one.
C31_SortAscending ==
    compacted # NoCompaction =>
        /\ \A i, j \in DOMAIN compacted.sorted :
              i < j => ~OlderFile(compacted.sorted[j], compacted.sorted[i])
        /\ \A a, b \in Elements(compacted.before) :
              OlderFile(a, b) => /\ CompareSstables(a.id, b.id) < 0
                                 /\ CompareSstables(b.id, a.id) > 0

\* the threads tidesdb_compact_sstables started
CompactThreads == 0..(compacted.max_threads - 1)

\* C32: the ranges [start, end) of the compaction threads are pairwise
\* disjoint, and every pair a thread processes lies inside its own range and
\* inside [0, N), so no slot is touched by two threads.
C32_ThreadPartition ==
    compacted # NoCompaction =>
        LET n  == Len(compacted.before)
            mt == compacted.max_threads
        IN  /\ \A i, k \in CompactThreads :
                  i # k => /\ (ThreadStart(i, n, mt)..(ThreadEnd(i, n, mt) - 1))
                                 \cap (ThreadStart(k, n, mt)..(ThreadEnd(k, n, mt) - 1)) = {}
                           /\ ThreadSlots(i, n, mt) \cap ThreadSlots(k, n, mt) = {}
            /\ \A i \in CompactThreads :
                  /\ ThreadSlots(i, n, mt)
                        \subseteq ThreadStart(i, n, mt)..(ThreadEnd(i, n, mt) - 1)
                  /\ ThreadSlots(i, n, mt) \subseteq 0..(n - 1)
            /\ PairStarts(n, mt) = UNION {ThreadPairs(i, n, mt) : i \in CompactThreads}

\* a compaction of three or more SSTables with more threads than SSTables,
\* or one in which two threads each processed a pair
C32_Witness ==
    /\ compacted # NoCompaction
    /\ Len(compacted.before) >= 3
    /\ \/ compacted.max_threads > Len(compacted.before)
       \/ \E i, k \in CompactThreads :
             /\ i # k
             /\ ThreadPairs(i, Len(compacted.before), compacted.max_threads) # {}
             /\ ThreadPairs(k, Len(compacted.before), compacted.max_threads) # {}

\* the position of an SSTable in a list
IndexIn(list, sst) == CHOOSE i \in DOMAIN list : list[i] = sst

\* C33: after tidesdb_compact_sstables the list has no NULL slot and holds,
\* in their original relative order, one merged SSTable for each merged pair
\* and every SSTable that was not merged, unchanged and still on disk.
C33_CompactionResult ==
    compacted # NoCompaction =>
        LET kept == Elements(compacted.before) \cap Elements(compacted.after)
        IN  /\ \A i \in DOMAIN compacted.after : compacted.after[i] # NullSst
            /\ Len(compacted.after) = Len(compacted.before) - Cardinality(compacted.merged)
            /\ \A j \in compacted.merged : compacted.slots[j + 1] \in Elements(compacted.after)
            /\ kept \subseteq files[compacted.cf]
            /\ \A a, b \in kept :
                  IndexIn(compacted.before, a) < IndexIn(compacted.before, b)
                      => IndexIn(compacted.after, a) < IndexIn(compacted.after, b)

\* the writer threads whose call moves in this step
Moved(w) == threads'.put[w] # threads.put[w]

\* a step in which a put or delete call of writer w returns the error code
ReturnsError(w, code) ==
    /\ Moved(w)
    /\ threads'.put[w].pc = "idle"
    /\ threads'.put[w].code = code

\* C34: tidesdb_put and tidesdb_delete write ahead - an entry enters the
\* memtable only in the step after the call's own WAL page was appended; a
\* call whose WAL append fails returns an error and leaves the memtable, the
\* flush queue and the SSTable list as they were; a call naming an unknown
\* column family returns error 1028 and appends nothing to the WAL
C34_WalFirst ==
    [][/\ \A w \in Writers :
             (Moved(w) /\ threads.put[w].pc \in {"wal_write", "delete_wal_write"}) =>
                 /\ memtable' = memtable
                 /\ \/ /\ threads'.put[w].pc \in {"appended", "delete_appended"}
                       /\ Len(wal') = Len(wal) + 1
                       /\ wal'[Len(wal')].key = threads.put[w].key
                       /\ wal'[Len(wal')].value = threads.put[w].value
                       /\ wal'[Len(wal')].op_code =
                              (IF threads.put[w].pc = "wal_write" THEN OP_PUT ELSE OP_DELETE)
                    \/ /\ ReturnsError(w, IF threads.put[w].pc = "wal_write"
                                          THEN ERR_PUT_WAL ELSE ERR_DELETE_WAL)
                       /\ wal' = wal
                       /\ flush_queue' = flush_queue
                       /\ sstables' = sstables
       /\ \A w \in Writers :
             (Moved(w) /\ threads.put[w].pc = "idle") =>
                 /\ memtable' = memtable
                 /\ wal' = wal
                 /\ threads'.put[w].pc = "idle" =>
                        /\ ReturnsError(w, ERR_CF_NOT_FOUND)
                        /\ flush_queue' = flush_queue
                        /\ sstables' = sstables
       /\ (memtable'[WriterColumnFamily] # memtable[WriterColumnFamily]) =>
             \/ memtable'[WriterColumnFamily] = EmptySkiplist
             \/ \E w \in Writers : /\ threads.put[w].pc \in {"appended", "delete_appended"}
                                   /\ Moved(w)
                                   /\ threads.put[w].key \in DOMAIN memtable'[WriterColumnFamily]
                                   /\ memtable'[WriterColumnFamily][threads.put[w].key].value
                                          = threads.put[w].value
      ]_vars

\* a WAL append of a put has failed while the memtable held an entry, and a
\* call naming an unknown column family has returned 1028
C34_Witness ==
    /\ \E w \in Writers : threads.put[w].code = ERR_PUT_WAL
    /\ \E w \in Writers : threads.put[w].code = ERR_CF_NOT_FOUND
    /\ memtable[WriterColumnFamily] # EmptySkiplist

\* the first WAL page of a column family that is not among names, or one
\* past the last page
FirstMissing(pages, names) ==
    LET missing == {i \in DOMAIN pages : pages[i].column_family \notin names}
    IN  IF missing = {} THEN Len(pages) + 1
        ELSE CHOOSE i \in missing : \A j \in missing : i <= j

\* the pages before page stop that write key in column family cf
PagesOf(pages, stop, cf, key) ==
    {i \in 1..(stop - 1) : pages[i].column_family = cf /\ pages[i].key = key}

\* the memtable entry the page leaves: the value and time-to-live of a put,
\* the tombstone without expiry of a delete
EntryOf(page) ==
    IF page.op_code = OP_PUT THEN [value |-> page.value, ttl |-> page.ttl]
    ELSE [value |-> TOMBSTONE, ttl |-> -1]

\* C35: WAL replay at open stops at the first operation whose column family
\* does not exist - the memtables hold exactly the operations before it, no
\* later operation is applied, and the pages of the WAL are unchanged
C35_ReplayStopsAtMissing ==
    [][(~opened /\ opened') =>
          LET names == CatalogNames(column_families')
              stop  == FirstMissing(wal, names)
          IN  /\ wal' = wal
              /\ \A cf \in names, key \in Keys :
                    LET idx == PagesOf(wal, stop, cf, key)
                    IN  IF idx = {} THEN key \notin DOMAIN memtable'[cf]
                        ELSE /\ key \in DOMAIN memtable'[cf]
                             /\ memtable'[cf][key] =
                                    EntryOf(wal[CHOOSE i \in idx : \A j \in idx : j <= i])
      ]_vars

\* the database was opened again over a WAL in which a page of a dropped
\* column family stands between pages of a loaded one, and the operation
\* before it is in its memtable
C35_Witness ==
    /\ opened
    /\ crashes > 0
    /\ \E i, j, k \in DOMAIN wal :
          /\ i < j /\ j < k
          /\ wal[j].column_family \notin CatalogNames(column_families)
          /\ wal[i].column_family \in CatalogNames(column_families)
          /\ wal[k].column_family = wal[i].column_family
          /\ wal[k].key # wal[i].key
          /\ DOMAIN memtable[wal[i].column_family] = {wal[i].key}

\* C36: the outcome of tidesdb_get depends only on the database state and
\* the key - calls that differ only in what the caller's value buffer holds
\* on entry return the same result
C36_GetIgnoresBuffer ==
    \A cf \in ColumnFamilies, key \in Keys, b1 \in Buffers, b2 \in Buffers :
        opened => tidesdb_get_into(cf, key, b1) = tidesdb_get_into(cf, key, b2)

\* C37: a queued flush entry is published to the column family its snapshot
\* was taken from, whatever column families are created or dropped between
\* the enqueue and the flush - the flush of an entry with live keys appends
\* its SSTable to the list of that column family and to no other
C37_FlushToOwnColumnFamily ==
    [][(/\ worker.pc = "flush"
        /\ worker'.pc # "flush"
        /\ worker.qe.cf \in CatalogNames(column_families)
        /\ LiveKeys(worker.qe.memtable, now) # {}) =>
           /\ Len(sstables'[worker.qe.cf]) = Len(sstables[worker.qe.cf]) + 1
           /\ \A cf \in ColumnFamilies \ {worker.qe.cf} : sstables'[cf] = sstables[cf]
      ]_vars

\* C38: the flush routine never runs for a queue entry whose column family
\* has been freed - at every step in which _flush_memtable works on an entry,
\* the drain after the stop signal of tidesdb_close included, the column
\* families are still live
C38_FlushOnLiveColumnFamily ==
    [][(worker.pc = "flush" /\ worker' # worker) => ~ColumnFamiliesFreed]_vars

\* C39: every snapshot on the flush queue was taken from a memtable that
\* held at least flush_threshold entries when it was copied - writers that
\* see the same crossing of the threshold do not enqueue a second, empty or
\* under-threshold snapshot
C39_SnapshotAtThreshold ==
    [][Len(flush_queue') > Len(flush_queue) =>
          LET entry == flush_queue'[Len(flush_queue')]
          IN  /\ entry.memtable = memtable[entry.cf]
              /\ TotalSize(entry.memtable) >= FlushThreshold
      ]_vars

\* C40: a committed transaction is durable like put and delete - after the
\* commit, a kill of the process and a reopen with no flush in between,
\* tidesdb_get returns the value of every committed put, and finds no key
\* whose last committed operation is a delete
C40_CommitDurable ==
    (opened /\ crashes > 0 /\ txn.status = "committed") =>
        \A k \in Touched(txn.ops) :
            LET op == LastOp(txn.ops, k)
            IN  IF op.op_code = OP_PUT
                THEN tidesdb_get(txn.column_family, k) =
                         [code |-> ERR_NONE, value |-> op.value]
                ELSE KeyNotFound(tidesdb_get(txn.column_family, k))

====
